---------------------------- MODULE Spec2Model ----------------------------
(*************************************************************************)
(* Clara AI backend: intent extraction (provider chain with rule-based   *)
(* fallback), rule-based keyword extractor and report persistence.       *)
(*                                                                       *)
(* Conventions                                                           *)
(*   - Python str values are TLA+ strings; Len, SubSeq and \o act on     *)
(*     them character by character.                                      *)
(*   - Python floats with two decimals are integers in hundredths        *)
(*     (0.85 is 85, 0.3 is 30).  Where a computed double is not the one  *)
(*     nearest to its hundredth, a field confidence_ulps holds its       *)
(*     distance from that double in units in the last place.             *)
(*   - Optional values: None is <<>>, a present value x is <<x>>.        *)
(*   - The parser of the tools accepts no character of the Malayalam     *)
(*     block (U+0D00..U+0D7F) in a string, so each Malayalam character   *)
(*     U+0D00+k of the source is written U+0C80+k; the substitution is   *)
(*     one to one and the block U+0C80..U+0CFF is otherwise unused.      *)
(*   - Nor does it accept a backtick, a dash other than the hyphen or a  *)
(*     pictograph: the backtick is written as the acute accent U+00B4,   *)
(*     en and em dashes as hyphens, and pictographs are left out.        *)
(*************************************************************************)
EXTENDS Integers, Sequences, FiniteSets, TLC

VARIABLES
    text,                 \* the transcript handed to extract_intent / _rule_extract
    llm_provider,         \* Settings.llm_provider (env LLM_PROVIDER)
    groq_api_key,         \* TRUE iff env GROQ_API_KEY is non-empty
    featherless_api_key,  \* TRUE iff FEATHERLESS_API_KEY or LLM_API_KEY is non-empty
    pc,                   \* position inside extract_intent
    calls,                \* provider requests issued so far, in order
    raw,                  \* reply text of the current provider's first call
    result,               \* value returned by extract_intent (None until it returns)
    raised,               \* exception that left extract_intent (None if none)
    ran_rule,             \* TRUE iff _rule_extract has been run
    clock,                \* wall clock of persistence_service, in whole seconds
    req,                  \* per-request state of _run_pipeline
    json_files,           \* reports/<id>.json : id -> payload
    md_files,             \* reports/<id>.md   : id -> markdown
    cap_confidence,       \* argument `confidence` of _apply_confidence_cap, in hundredths
    cap_symptom,          \* argument `symptom` of _apply_confidence_cap
    capped,               \* value returned by _apply_confidence_cap (None before)
    cs_text,              \* argument `text` of analyse_codeswitch
    cs_result,            \* CodeSwitchResult returned by analyse_codeswitch (None before)
    str_hash,             \* hash() of str in each server process: process -> (transcript -> value)
    enterprise_mode,      \* Settings.enterprise_mode (env ENTERPRISE_MODE)
    gen,                  \* the invocations of generate_report: arguments, clock and returned markdown
    sum_fn,               \* the entry point running: summarise_report or analyse_executive_report
    sum_report,           \* argument `report_text`, as what the searches of the fallback find in it
    sum_pc,               \* position in the provider loop
    sum_calls,            \* provider functions called so far, with what each did
    sum_result,           \* dict returned by the entry point (None before)
    sum_raised,           \* exception that left the entry point (None if none)
    drafts,               \* _clarification_drafts of routes/process.py: report_id -> draft
    http_req,             \* the HTTP request being served (None between requests)
    http_log,             \* the requests served so far, each with its response
    parse_payload,        \* the payload of the reply
    parse_wrap,           \* how the reply wraps the payload
    parse_text,           \* the text the reply answers
    parse_out,            \* the outcome of _parse_intent_json, once called
    dos_transcript,       \* the transcript _run_pipeline works on
    dos_intent,           \* the IntentResult object that extract_intent returned
    dos_response          \* the response of _run_pipeline, once built

vars == <<text, llm_provider, groq_api_key, featherless_api_key, pc, calls,
          raw, result, raised, ran_rule, clock, req, json_files, md_files,
          cap_confidence, cap_symptom, capped,
          cs_text, cs_result,
          str_hash, enterprise_mode, gen,
          sum_fn, sum_report, sum_pc, sum_calls, sum_result, sum_raised,
          drafts, http_req, http_log,
          parse_payload, parse_wrap, parse_text, parse_out,
          dos_transcript, dos_intent, dos_response>>

routerVars == <<text, llm_provider, groq_api_key, featherless_api_key, pc,
                calls, raw, result, raised, ran_rule>>

pipeVars == <<clock, req, json_files, md_files>>

capVars == <<cap_confidence, cap_symptom, capped>>

csVars == <<cs_text, cs_result>>

repVars == <<str_hash, enterprise_mode, gen>>

sumVars == <<sum_fn, sum_report, sum_pc, sum_calls, sum_result, sum_raised>>

httpVars == <<drafts, http_req, http_log>>

parseVars == <<parse_payload, parse_wrap, parse_text, parse_out>>

dosVars == <<dos_transcript, dos_intent, dos_response>>

\* the variables of the components other than extract_intent and _run_pipeline
auxVars == <<capVars, csVars, repVars, sumVars, httpVars, parseVars, dosVars>>

None == <<>>
Some(x) == <<x>>

-----------------------------------------------------------------------------
(* Each specification exercises one component; the variables of the other *)
(* components rest at these values.                                        *)

RouterIdle ==
    /\ text = ""
    /\ llm_provider = "dummy"
    /\ groq_api_key = FALSE
    /\ featherless_api_key = FALSE
    /\ pc = "idle"
    /\ calls = <<>>
    /\ raw = None
    /\ result = None
    /\ raised = None
    /\ ran_rule = FALSE

PipeIdle ==
    /\ clock = 0
    /\ req = <<>>
    /\ json_files = <<>>
    /\ md_files = <<>>

CapIdle ==
    /\ cap_confidence = 0
    /\ cap_symptom = ""
    /\ capped = None

CsIdle ==
    /\ cs_text = ""
    /\ cs_result = None

RepIdle ==
    /\ str_hash = <<>>
    /\ enterprise_mode = TRUE
    /\ gen = <<>>

SumIdle ==
    /\ sum_fn = ""
    /\ sum_report = <<>>
    /\ sum_pc = "idle"
    /\ sum_calls = <<>>
    /\ sum_result = None
    /\ sum_raised = None

HttpIdle ==
    /\ drafts = <<>>
    /\ http_req = None
    /\ http_log = <<>>

ParseIdle ==
    /\ parse_payload = ""
    /\ parse_wrap = "bare"
    /\ parse_text = ""
    /\ parse_out = None

DosIdle ==
    /\ dos_transcript = ""
    /\ dos_intent = None
    /\ dos_response = None

AuxIdle == CapIdle /\ CsIdle /\ RepIdle /\ SumIdle /\ HttpIdle /\ ParseIdle /\ DosIdle

\* every component but g is idle (the routes work on the files of the pipeline)
OthersIdle(g) ==
    /\ RouterIdle
    /\ IF g = "http" THEN TRUE ELSE PipeIdle
    /\ IF g = "cap" THEN TRUE ELSE CapIdle
    /\ IF g = "cs" THEN TRUE ELSE CsIdle
    /\ IF g = "rep" THEN TRUE ELSE RepIdle
    /\ IF g = "sum" THEN TRUE ELSE SumIdle
    /\ IF g = "http" THEN TRUE ELSE HttpIdle
    /\ IF g = "parse" THEN TRUE ELSE ParseIdle
    /\ IF g = "dos" THEN TRUE ELSE DosIdle

\* no variable of a component other than g changes
OthersUnchanged(g) ==
    /\ UNCHANGED routerVars
    /\ IF g = "http" THEN TRUE ELSE UNCHANGED pipeVars
    /\ IF g = "cap" THEN TRUE ELSE UNCHANGED capVars
    /\ IF g = "cs" THEN TRUE ELSE UNCHANGED csVars
    /\ IF g = "rep" THEN TRUE ELSE UNCHANGED repVars
    /\ IF g = "sum" THEN TRUE ELSE UNCHANGED sumVars
    /\ IF g = "http" THEN TRUE ELSE UNCHANGED httpVars
    /\ IF g = "parse" THEN TRUE ELSE UNCHANGED parseVars
    /\ IF g = "dos" THEN TRUE ELSE UNCHANGED dosVars

-----------------------------------------------------------------------------
(* Bounds *)

MaxWords == 3
MaxClock == 3
NumRequests == 2
TicksPerSecond == 2
MaxConfidence == 100
MaxHttpRequests == 2
MaxTokens == 3

-----------------------------------------------------------------------------
(* str helpers *)

UpperCase == <<"A","B","C","D","E","F","G","H","I","J","K","L","M",
               "N","O","P","Q","R","S","T","U","V","W","X","Y","Z">>
LowerCase == <<"a","b","c","d","e","f","g","h","i","j","k","l","m",
               "n","o","p","q","r","s","t","u","v","w","x","y","z">>

\* str.lower() on one character (the scripts used here other than Latin are caseless)
LowerChar(c) ==
    IF \E i \in 1..26 : UpperCase[i] = c
    THEN LowerCase[CHOOSE i \in 1..26 : UpperCase[i] = c]
    ELSE c

RECURSIVE lower(_)
lower(s) == IF s = "" THEN "" ELSE LowerChar(SubSeq(s, 1, 1)) \o lower(Tail(s))

\* str.replace(old, new) for single-character old and new
RECURSIVE replace(_, _, _)
replace(s, old, new) ==
    IF s = "" THEN ""
    ELSE (IF SubSeq(s, 1, 1) = old THEN new ELSE SubSeq(s, 1, 1))
         \o replace(Tail(s), old, new)

\* Python `kw in t` for str
IsSubstr(kw, t) ==
    \E i \in 1..(Len(t) - Len(kw) + 1) : SubSeq(t, i, i + Len(kw) - 1) = kw

\* round(n / d * 100) / 100 on hundredths: nearest integer to n / d (no ties arise for d = 3)
RoundDiv(n, d) == (2 * n + d) \div (2 * d)

Max(a, b) == IF a >= b THEN a ELSE b

Abs(n) == IF n < 0 THEN -n ELSE n

-----------------------------------------------------------------------------
(* Rule-based extractor: keyword tables in dict order *)

_DEVICES == <<
    [canonical |-> "motor pump", keywords |-> <<"motor pump", "motor", "pump", "மோட்டார்", "பம்ப்", "ಮೋಟ್ಟ೼", "ಪಮ್ಪ್">>],
    [canonical |-> "transformer", keywords |-> <<"transformer", "டிரான்ஸ்ஃபார்மர்", "ಟ್ರಾ೻ಸ್ಫೋ೼ಮ೼">>],
    [canonical |-> "inverter", keywords |-> <<"inverter", "இன்வெர்ட்டர்", "ಇ೻ವೆ೼ಟ್ಟ೼">>],
    [canonical |-> "fan", keywords |-> <<"fan", "விசிறி", "ಫಾ೻">>],
    [canonical |-> "phone", keywords |-> <<"phone", "mobile", "போன்", "ಫೋ೺">>],
    [canonical |-> "compressor", keywords |-> <<"compressor", "கம்ப்ரஸ்ஸர்", "ಕಂಪ್ರಸ್ಸ೼">>],
    [canonical |-> "AC", keywords |-> <<"ac", "air conditioner", "ஏசி", "ಎಸಿ">>] >>

_SYMPTOMS == <<
    [canonical |-> "noise", keywords |-> <<"noise", "sound", "சத்தம்", "ಶಬ್ದಂ", "ஒலி", "valiya sound">>],
    [canonical |-> "vibration", keywords |-> <<"vibration", "vibrate", "அதிர்வு", "ವೈಬ್ರೇಷ೻">>],
    [canonical |-> "overheating", keywords |-> <<
        "heat", "hot", "overheat", "சூடு", "ಚೂಟ್",
        "short circuit", "current varudhu", "current koodum",
        "choodan", "choodum", "valuthu choodan">>],
    [canonical |-> "charging failure", keywords |-> <<
        "not charging", "charge fail", "சார்ஜ் ஆகல", "ಚಾ೼ಜ್",
        "charge aagala", "charge aagunnilla">>],
    [canonical |-> "not working", keywords |-> <<
        "not working", "stopped", "வேலை செய்யல", "ಪ್ರವ೼ತ್ತಿಕ್ಕುನ್ನಿಲ್ಲ",
        "aagala", "aagunnilla", "pochu", "illama",
        "cheyyunnilla", "kurayunnu", "slow">>],
    [canonical |-> "low battery", keywords |-> <<"low battery", "battery drain", "drain", "பேட்டரி குறை", "ಬಾಱ್ಱಱಿ">>] >>

_COMPONENTS == <<
    [canonical |-> "capacitor", keywords |-> <<"capacitor", "cap", "கெபாசிட்டர்", "ಕಪ್ಪಾಸಿಱ್ಱ೼">>],
    [canonical |-> "filter", keywords |-> <<"filter", "பில்டர்", "ಫಿ೽ಟ್ಟ೼">>],
    [canonical |-> "wiring", keywords |-> <<"wiring", "wire", "cable", "வயரிங்", "ವಯಱಿಂಗ್">>],
    [canonical |-> "bearing", keywords |-> <<"bearing", "பேரிங்", "ಬೆಯಱಿಂಗ್">>],
    [canonical |-> "circuit board", keywords |-> <<"circuit", "board", "pcb", "சர்க்யூட்", "ಸ೼ಕ್ಯೂಟ್ಟ್">>] >>

\* the loops of _match: entries in table order, keywords in list order
RECURSIVE MatchFrom(_, _, _, _)
MatchFrom(text_lower, lookup, i, k) ==
    IF i > Len(lookup) THEN <<"unknown", 30>>
    ELSE IF k > Len(lookup[i].keywords) THEN MatchFrom(text_lower, lookup, i + 1, 1)
    ELSE IF IsSubstr(lower(lookup[i].keywords[k]), text_lower)
         THEN <<lookup[i].canonical, 85>>
         ELSE MatchFrom(text_lower, lookup, i, k + 1)

\* _match scanning the table from its last entry to its first
_match_LastEntryFirst(text_lower, lookup) ==
    MatchFrom(text_lower,
              [i \in 1..Len(lookup) |-> lookup[Len(lookup) + 1 - i]], 1, 1)

_match(text_lower, lookup) == MatchFrom(text_lower, lookup, 1, 1)

urgency_map ==
    [symptom \in {"overheating", "not working", "charging failure",
                  "noise", "vibration", "low battery"} |->
        IF symptom \in {"overheating", "not working", "charging failure"}
        THEN "high" ELSE "medium"]

\* RuleIntent without the replacement of blanks in the symptom
RuleIntent_NoReplace(device, symptom) ==
    IF device # "unknown" /\ symptom # "unknown"
    THEN "report_" \o symptom
    ELSE IF device # "unknown" THEN "report_general_issue"
    ELSE "unclassified"

\* the intent label chosen by _rule_extract from the two matched labels
RuleIntent(device, symptom) ==
    IF device # "unknown" /\ symptom # "unknown"
    THEN "report_" \o replace(symptom, " ", "_")
    ELSE IF device # "unknown" THEN "report_general_issue"
    ELSE "unclassified"

\* RuleConfidence with the penalty tied to the device instead of the symptom
RuleConfidence_PenaltyOnDevice(symptom, d, s, c) ==
    LET confidence == RoundDiv(d + s + c, 3)
    IN  IF d = 30 THEN Max(confidence - 15, 10) ELSE confidence

\* the confidence computed by _rule_extract from the three table scores
\* (in binary floating point 0.48 - 0.15 is 0.32999999999999996; here it is 33)
RuleConfidence(symptom, d, s, c) ==
    LET confidence == RoundDiv(d + s + c, 3)
    IN  IF symptom = "unknown" THEN Max(confidence - 15, 10) ELSE confidence

\* confidence - 0.15 in binary64 for the four rounded means h/100 that occur:
\* the result as the nearest hundredth and its distance, in units in the last
\* place, from the double nearest to that hundredth.  0.85 - 0.15, 0.67 - 0.15
\* and 0.3 - 0.15 are the doubles 0.7, 0.52 and 0.15; 0.48 - 0.15 is
\* 0.32999999999999996, the double below 0.33.
FloatMinus015(h) == [h |-> h - 15, ulps |-> IF h = 48 THEN -1 ELSE 0]

\* the distance of the confidence computed by _rule_extract from the double
\* nearest to RuleConfidence/100 (round(x, 2) and the literal 0.1 are such doubles)
RuleConfidenceUlps(symptom, d, s, c) ==
    IF symptom = "unknown" /\ FloatMinus015(RoundDiv(d + s + c, 3)).h > 10
    THEN FloatMinus015(RoundDiv(d + s + c, 3)).ulps
    ELSE 0

_rule_extract(t) ==
    LET low == lower(t)
        dm  == _match(low, _DEVICES)
        sm  == _match(low, _SYMPTOMS)
        cm  == _match(low, _COMPONENTS)
        device    == dm[1]
        symptom   == sm[1]
        component == cm[1]
    IN  [ intent              |-> RuleIntent(device, symptom),
          device              |-> device,
          symptom             |-> symptom,
          suspected_component |-> IF component # "unknown" THEN Some(component) ELSE None,
          user_query          |-> t,
          urgency             |-> IF symptom \in DOMAIN urgency_map
                                  THEN urgency_map[symptom] ELSE "low",
          confidence_score    |-> RuleConfidence(symptom, dm[2], sm[2], cm[2]),
          confidence_ulps     |-> RuleConfidenceUlps(symptom, dm[2], sm[2], cm[2]),
          follow_up_questions |-> <<>> ]

-----------------------------------------------------------------------------
(* More str helpers, used by _parse_intent_json *)

SetMin(S) == CHOOSE m \in S : \A n \in S : m <= n
SetMax(S) == CHOOSE m \in S : \A n \in S : m >= n

CharAt(s, i) == SubSeq(s, i, i)

IsSpace(c) == c \in {" ", "\n", "\t", "\r"}

\* str.strip()
strip(s) ==
    LET keep == {i \in 1..Len(s) : ~IsSpace(CharAt(s, i))}
    IN  IF keep = {} THEN "" ELSE SubSeq(s, SetMin(keep), SetMax(keep))

\* str.startswith(prefix)
startswith(s, prefix) == Len(s) >= Len(prefix) /\ SubSeq(s, 1, Len(prefix)) = prefix

\* str.splitlines(), the line boundary being "\n"
RECURSIVE splitlines(_)
splitlines(s) ==
    IF s = "" THEN <<>>
    ELSE LET nl == {i \in 1..Len(s) : CharAt(s, i) = "\n"}
         IN  IF nl = {} THEN <<s>>
             ELSE <<SubSeq(s, 1, SetMin(nl) - 1)>>
                  \o splitlines(SubSeq(s, SetMin(nl) + 1, Len(s)))

\* sep.join(lines)
RECURSIVE join(_, _)
join(sep, lines) ==
    IF lines = <<>> THEN ""
    ELSE IF Len(lines) = 1 THEN lines[1]
    ELSE lines[1] \o sep \o join(sep, Tail(lines))

\* str.find(c) and str.rfind(c) for a single character: 0-based index, -1 if absent
find(s, c) ==
    LET at == {i \in 1..Len(s) : CharAt(s, i) = c}
    IN  IF at = {} THEN -1 ELSE SetMin(at) - 1

rfind(s, c) ==
    LET at == {i \in 1..Len(s) : CharAt(s, i) = c}
    IN  IF at = {} THEN -1 ELSE SetMax(at) - 1

-----------------------------------------------------------------------------
(* JSON documents and the IntentResult schema *)

\* The grave accent U+0060 cannot be written in a string here; it is written U+00B4.
FENCE == "´´´"

\* JSON values: [t, v] with t the JSON type
JStr(x)  == [t |-> "str",  v |-> x]
JNum(n)  == [t |-> "num",  v |-> n]      \* n in hundredths
JList(l) == [t |-> "list", v |-> l]      \* a list of strings
JNull    == [t |-> "null", v |-> ""]

J_valid == "{\"intent\":\"report_noise\",\"device\":\"motor\",\"symptom\":\"noise\",\"suspected_component\":null,\"user_query\":\"Motor is noisy\",\"urgency\":\"medium\",\"confidence_score\":0.9,\"follow_up_questions\":[\"q1\",\"q2\"]}"
J_min   == "{\"intent\":\"report_issue\",\"device\":\"fan\",\"symptom\":\"issue\",\"confidence_score\":1.0}"
J_four  == "{\"intent\":\"report_noise\",\"device\":\"motor\",\"symptom\":\"noise\",\"confidence_score\":0.8,\"follow_up_questions\":[\"q1\",\"q2\",\"q3\",\"q4\"]}"
J_conf  == "{\"intent\":\"report_noise\",\"device\":\"motor\",\"symptom\":\"noise\",\"urgency\":\"high\",\"confidence_score\":1.5}"
J_urg   == "{\"intent\":\"report_noise\",\"device\":\"motor\",\"symptom\":\"noise\",\"urgency\":\"critical\",\"confidence_score\":0.7}"
J_array == "[]"
J_number == "123"
J_string == "\"noise\""
J_null  == "null"
J_empty == "{}"

\* json.loads on the documents above; every other string is a JSONDecodeError
JSON_DOCS == {
    [doc |-> J_valid, kind |-> "object", members |->
        [intent |-> JStr("report_noise"), device |-> JStr("motor"), symptom |-> JStr("noise"),
         suspected_component |-> JNull, user_query |-> JStr("Motor is noisy"),
         urgency |-> JStr("medium"), confidence_score |-> JNum(90),
         follow_up_questions |-> JList(<<"q1", "q2">>)]],
    [doc |-> J_min, kind |-> "object", members |->
        [intent |-> JStr("report_issue"), device |-> JStr("fan"), symptom |-> JStr("issue"),
         confidence_score |-> JNum(100)]],
    [doc |-> J_four, kind |-> "object", members |->
        [intent |-> JStr("report_noise"), device |-> JStr("motor"), symptom |-> JStr("noise"),
         confidence_score |-> JNum(80),
         follow_up_questions |-> JList(<<"q1", "q2", "q3", "q4">>)]],
    [doc |-> J_conf, kind |-> "object", members |->
        [intent |-> JStr("report_noise"), device |-> JStr("motor"), symptom |-> JStr("noise"),
         urgency |-> JStr("high"), confidence_score |-> JNum(150)]],
    [doc |-> J_urg, kind |-> "object", members |->
        [intent |-> JStr("report_noise"), device |-> JStr("motor"), symptom |-> JStr("noise"),
         urgency |-> JStr("critical"), confidence_score |-> JNum(70)]],
    [doc |-> J_array, kind |-> "array", members |-> <<>>],
    [doc |-> J_number, kind |-> "number", members |-> <<>>],
    [doc |-> J_string, kind |-> "string", members |-> <<>>],
    [doc |-> J_null, kind |-> "null", members |-> <<>>],
    [doc |-> J_empty, kind |-> "object", members |-> <<>>] }

\* json.loads(s): [ok, kind, members]; ok = FALSE stands for json.JSONDecodeError
json_loads(s) ==
    IF \E d \in JSON_DOCS : d.doc = s
    THEN LET d == CHOOSE d \in JSON_DOCS : d.doc = s
         IN  [ok |-> TRUE, kind |-> d.kind, members |-> d.members]
    ELSE [ok |-> FALSE, kind |-> "", members |-> <<>>]

\* dict.setdefault(key, value)
setdefault(data, key, value) ==
    IF key \in DOMAIN data THEN data ELSE (key :> value) @@ data

\* IntentResultValid without the bounds ge=0, le=1 on confidence_score
IntentResultValid_NoBounds(data) ==
    /\ \A f \in {"intent", "device", "symptom", "user_query"} :
          f \in DOMAIN data /\ data[f].t = "str"
    /\ "suspected_component" \in DOMAIN data =>
          data["suspected_component"].t \in {"str", "null"}
    /\ "urgency" \in DOMAIN data =>
          /\ data["urgency"].t = "str"
          /\ data["urgency"].v \in {"low", "medium", "high"}
    /\ "confidence_score" \in DOMAIN data
    /\ data["confidence_score"].t = "num"
    /\ "follow_up_questions" \in DOMAIN data =>
          data["follow_up_questions"].t = "list"

\* IntentResultValid without the Literal constraint on urgency
IntentResultValid_AnyUrgency(data) ==
    /\ \A f \in {"intent", "device", "symptom", "user_query"} :
          f \in DOMAIN data /\ data[f].t = "str"
    /\ "suspected_component" \in DOMAIN data =>
          data["suspected_component"].t \in {"str", "null"}
    /\ "urgency" \in DOMAIN data => data["urgency"].t = "str"
    /\ "confidence_score" \in DOMAIN data
    /\ data["confidence_score"].t = "num"
    /\ data["confidence_score"].v >= 0
    /\ data["confidence_score"].v <= 100
    /\ "follow_up_questions" \in DOMAIN data =>
          data["follow_up_questions"].t = "list"

\* the constraints of the IntentResult model on keyword arguments `data`
\* (pydantic.ValidationError, a ValueError, when FALSE)
IntentResultValid(data) ==
    /\ \A f \in {"intent", "device", "symptom", "user_query"} :
          f \in DOMAIN data /\ data[f].t = "str"
    /\ "suspected_component" \in DOMAIN data =>
          data["suspected_component"].t \in {"str", "null"}
    /\ "urgency" \in DOMAIN data =>
          /\ data["urgency"].t = "str"
          /\ data["urgency"].v \in {"low", "medium", "high"}
    /\ "confidence_score" \in DOMAIN data
    /\ data["confidence_score"].t = "num"
    /\ data["confidence_score"].v >= 0
    /\ data["confidence_score"].v <= 100
    /\ "follow_up_questions" \in DOMAIN data =>
          data["follow_up_questions"].t = "list"

\* IntentResult with "medium" as the default of urgency
IntentResult_UrgencyDefaultMedium(data) ==
    [ intent              |-> data["intent"].v,
      device              |-> data["device"].v,
      symptom             |-> data["symptom"].v,
      suspected_component |->
          IF "suspected_component" \in DOMAIN data
             /\ data["suspected_component"].t = "str"
          THEN Some(data["suspected_component"].v) ELSE None,
      user_query          |-> data["user_query"].v,
      urgency             |-> IF "urgency" \in DOMAIN data
                              THEN data["urgency"].v ELSE "medium",
      confidence_score    |-> data["confidence_score"].v,
      confidence_ulps     |-> 0,
      follow_up_questions |->
          IF "follow_up_questions" \in DOMAIN data
          THEN data["follow_up_questions"].v ELSE <<>> ]

\* IntentResult(**data) for valid data: defaults filled in
IntentResult(data) ==
    [ intent              |-> data["intent"].v,
      device              |-> data["device"].v,
      symptom             |-> data["symptom"].v,
      suspected_component |->
          IF "suspected_component" \in DOMAIN data
             /\ data["suspected_component"].t = "str"
          THEN Some(data["suspected_component"].v) ELSE None,
      user_query          |-> data["user_query"].v,
      urgency             |-> IF "urgency" \in DOMAIN data
                              THEN data["urgency"].v ELSE "low",
      confidence_score    |-> data["confidence_score"].v,
      confidence_ulps     |-> 0,
      follow_up_questions |->
          IF "follow_up_questions" \in DOMAIN data
          THEN data["follow_up_questions"].v ELSE <<>> ]

\* outcomes of _parse_intent_json
Parsed(r)      == [kind |-> "ok",    value |-> Some(r), exc |-> ""]
ParseNone      == [kind |-> "none",  value |-> None,    exc |-> ""]
ParseRaise(e)  == [kind |-> "raise", value |-> None,    exc |-> e]

\* lines 54-55: the lines between the opening fence and the closing one (if any)
InnerLines(lines) ==
    IF startswith(strip(lines[Len(lines)]), FENCE)
    THEN SubSeq(lines, 2, Len(lines) - 1)
    ELSE SubSeq(lines, 2, Len(lines))

\* lines 53-56: drop a markdown code fence
StripFence(stripped) ==
    IF startswith(stripped, FENCE)
    THEN strip(join("\n", InnerLines(splitlines(stripped))))
    ELSE stripped

\* lines 61-62
CutAt(stripped, start, end) ==
    IF start # -1 /\ end # -1 /\ end > start
    THEN SubSeq(stripped, start + 1, end + 1)
    ELSE stripped

\* lines 59-62: cut from the first { to the last }
CutBraces(stripped) == CutAt(stripped, find(stripped, "{"), rfind(stripped, "}"))

\* lines 50-62: strip, drop a markdown code fence, cut from the first { to the last }
Preprocess(raw_reply) == CutBraces(StripFence(strip(raw_reply)))

\* line 67: IntentResult(**data); a ValidationError gives None
Construct(data) ==
    IF IntentResultValid(data) THEN Parsed(IntentResult(data)) ELSE ParseNone

\* lines 65-70 on the value of json.loads: a JSONDecodeError gives None; the
\* AttributeError of setdefault on a value that is no dict is not caught
ParseLoaded(loaded, t) ==
    IF ~loaded.ok THEN ParseNone
    ELSE IF loaded.kind # "object" THEN ParseRaise("AttributeError")
    ELSE Construct(setdefault(loaded.members, "user_query", JStr(t)))

_parse_intent_json(raw_reply, t) == ParseLoaded(json_loads(Preprocess(raw_reply)), t)

-----------------------------------------------------------------------------
(* extract_intent: the provider chain *)

\* the en dashes of the source prompt are written as hyphens
_SYSTEM_PROMPT ==
    "You are a structured intent extraction engine for an enterprise field-service platform.\n"
    \o "Return STRICT JSON only. No explanations. No extra text.\n"
    \o "Required fields:\n"
    \o "  intent             - short snake_case action label (e.g. report_overheating)\n"
    \o "  device             - equipment name\n"
    \o "  symptom            - observed fault\n"
    \o "  suspected_component - component most likely at fault (null if unknown)\n"
    \o "  user_query         - restate the query in professional English\n"
    \o "  urgency            - one of: low | medium | high\n"
    \o "  confidence_score   - float 0-1\n"
    \o "  follow_up_questions - list of 1-3 clarifying questions an engineer should ask next\n"
    \o "Use precise, professional field-service terminology."

\* the conversation built by _groq_extract and _llm_extract
Messages(t) ==
    << [role |-> "system", content |-> _SYSTEM_PROMPT],
       [role |-> "user",   content |-> "Transcript: " \o t] >>

\* the conversation of the retry in _call_and_parse
RetryMessages(messages, raw_reply) ==
    messages \o << [role |-> "assistant", content |-> raw_reply],
                   [role |-> "user", content |-> "Fix the output into STRICT valid JSON only."] >>

\* reply texts a provider may send
Replies == { J_valid,
             FENCE \o "json\n" \o J_valid \o "\n" \o FENCE,
             J_min,
             "Here is the JSON: " \o J_four,
             J_conf,
             J_urg,
             "I cannot help with that.",
             J_array,
             "" }

\* What one invocation of caller_fn can do.
\*   RuntimeError : the adapter's documented failure (no key, timeout, connection, HTTP status)
\*   other        : an exception the adapter does not convert (a response body
\*                  without choices[0].message.content: KeyError / IndexError)
\*   null         : Featherless passes a JSON null content through; Groq turns it into ""
\*   reply        : a content string
CallOutcomes(provider) ==
    LET has_key == IF provider = "Groq" THEN groq_api_key ELSE featherless_api_key
    IN  IF ~has_key
        THEN {[kind |-> "RuntimeError", content |-> "", exc |-> "RuntimeError"]}
        ELSE {[kind |-> "RuntimeError", content |-> "", exc |-> "RuntimeError"],
              [kind |-> "other", content |-> "",
               exc |-> IF provider = "Groq" THEN "IndexError" ELSE "KeyError"]}
             \cup {[kind |-> "reply", content |-> r, exc |-> ""] : r \in Replies}
             \cup (IF provider = "Featherless"
                   THEN {[kind |-> "null", content |-> "", exc |-> ""]}
                   ELSE {})

\* how _call_and_parse disposes of the value of _parse_intent_json
DispositionOfParse(parsed) ==
    IF parsed.kind = "ok" THEN [d |-> "valid", value |-> parsed.value, exc |-> ""]
    ELSE IF parsed.kind = "none" THEN [d |-> "invalid", value |-> None, exc |-> ""]
    ELSE [d |-> "raise", value |-> None, exc |-> parsed.exc]

\* how _call_and_parse disposes of one outcome of caller_fn:
\*   "valid" (a record is returned), "invalid" (_parse_intent_json gave None),
\*   "failed" (RuntimeError caught, None returned), "raise" (an exception leaves)
Disposition(o, t) ==
    IF o.kind = "RuntimeError" THEN [d |-> "failed", value |-> None, exc |-> ""]
    ELSE IF o.kind = "other" THEN [d |-> "raise", value |-> None, exc |-> o.exc]
    ELSE IF o.kind = "null" THEN [d |-> "raise", value |-> None, exc |-> "AttributeError"]
    ELSE DispositionOfParse(_parse_intent_json(o.content, t))

\* the entry of `calls` for one invocation of caller_fn
CallEntry(provider, messages, o, disp) ==
    [provider |-> provider, messages |-> messages,
     reply |-> IF o.kind = "reply" THEN Some(o.content) ELSE None,
     outcome |-> disp.d]

\* NextExtractor with the two providers in the opposite order
NextExtractor_Reversed(provider) == IF provider = "Featherless" THEN "Groq" ELSE "rule"

\* the extractor that extract_intent turns to when `provider` returned None
NextExtractor(provider) == IF provider = "Groq" THEN "Featherless" ELSE "rule"

\* the first extractor chosen by extract_intent from Settings.llm_provider
FirstExtractor(setting) ==
    IF lower(setting) = "groq" THEN "Groq"
    ELSE IF lower(setting) = "featherless" THEN "Featherless"
    ELSE "rule"

\* extract_intent goes on with extractor e
GoTo(e) ==
    IF e = "rule"
    THEN /\ result' = Some(_rule_extract(text))
         /\ ran_rule' = TRUE
         /\ pc' = "done"
    ELSE /\ pc' = e \o "_first"
         /\ UNCHANGED <<result, ran_rule>>

\* extract_intent is entered: line 215 and the branch on the provider setting
Enter ==
    /\ pc = "start"
    /\ GoTo(FirstExtractor(llm_provider))
    /\ UNCHANGED <<text, llm_provider, groq_api_key, featherless_api_key,
                   calls, raw, raised>>
    /\ UNCHANGED pipeVars
    /\ UNCHANGED auxVars

\* _call_and_parse lines 83-91 once the first call has ended with disposition disp
AfterFirstCall(provider, o, disp) ==
    /\ calls' = Append(calls, CallEntry(provider, Messages(text), o, disp))
    /\ CASE disp.d = "valid" ->
              /\ result' = disp.value
              /\ pc' = "done"
              /\ UNCHANGED <<raw, raised, ran_rule>>
         [] disp.d = "invalid" ->
              /\ raw' = Some(o.content)
              /\ pc' = provider \o "_repair"
              /\ UNCHANGED <<result, raised, ran_rule>>
         [] disp.d = "failed" ->
              /\ GoTo(NextExtractor(provider))
              /\ UNCHANGED <<raw, raised>>
         [] disp.d = "raise" ->
              /\ raised' = Some(disp.exc)
              /\ pc' = "raised"
              /\ UNCHANGED <<raw, result, ran_rule>>

\* _call_and_parse lines 80-91: the first call to `provider` and what follows
\* up to the next call or the return
FirstCall(provider) ==
    /\ pc = provider \o "_first"
    /\ \E o \in CallOutcomes(provider) :
          AfterFirstCall(provider, o, Disposition(o, text))
    /\ UNCHANGED <<text, llm_provider, groq_api_key, featherless_api_key>>
    /\ UNCHANGED pipeVars
    /\ UNCHANGED auxVars

\* _call_and_parse lines 100-109 once the retry has ended with disposition disp
AfterRepairCall(provider, o, disp) ==
    /\ calls' = Append(calls,
           CallEntry(provider, RetryMessages(Messages(text), raw[1]), o, disp))
    /\ raw' = None
    /\ CASE disp.d = "valid" ->
              /\ result' = disp.value
              /\ pc' = "done"
              /\ UNCHANGED <<raised, ran_rule>>
         [] disp.d \in {"invalid", "failed"} ->
              /\ GoTo(NextExtractor(provider))
              /\ UNCHANGED raised
         [] disp.d = "raise" ->
              /\ raised' = Some(disp.exc)
              /\ pc' = "raised"
              /\ UNCHANGED <<result, ran_rule>>

\* _call_and_parse lines 92-109: the retry and what follows
RepairCall(provider) ==
    /\ pc = provider \o "_repair"
    /\ \E o \in CallOutcomes(provider) :
          AfterRepairCall(provider, o, Disposition(o, text))
    /\ UNCHANGED <<text, llm_provider, groq_api_key, featherless_api_key>>
    /\ UNCHANGED pipeVars
    /\ UNCHANGED auxVars

GroqFirstCall == FirstCall("Groq")
GroqRepairCall == RepairCall("Groq")
FeatherlessFirstCall == FirstCall("Featherless")
FeatherlessRepairCall == RepairCall("Featherless")

RouterTexts == {"Motor making noise", "xyz abc def"}

ProviderSettings == {"groq", "Featherless", "dummy", "openai"}

Init ==
    /\ text \in RouterTexts
    /\ llm_provider \in ProviderSettings
    /\ groq_api_key \in BOOLEAN
    /\ featherless_api_key \in BOOLEAN
    /\ pc = "start"
    /\ calls = <<>>
    /\ raw = None
    /\ result = None
    /\ raised = None
    /\ ran_rule = FALSE
    /\ clock = 0
    /\ req = <<>>
    /\ json_files = <<>>
    /\ md_files = <<>>
    /\ AuxIdle

Next ==
    \/ Enter
    \/ GroqFirstCall
    \/ GroqRepairCall
    \/ FeatherlessFirstCall
    \/ FeatherlessRepairCall

Spec == Init /\ [][Next]_vars

-----------------------------------------------------------------------------
(* Inputs of the rule-based extractor: up to MaxWords words joined by blanks *)

Words == {"Motor", "noise", "capacitor", "xyz", "hot",
          "not", "charging", "wire", "சத்தம்", "stopped"}

RECURSIVE TextsOfLen(_)
TextsOfLen(n) ==
    IF n = 0 THEN {""}
    ELSE IF n = 1 THEN Words
    ELSE {w \o " " \o t : w \in Words, t \in TextsOfLen(n - 1)}

\* the first case of routes/self_test.py (the Tanglish scenario)
TanglishText ==
    "Indha motor pump-la noise adhikama irukku, capacitor check pannanuma?"

RuleTexts == UNION {TextsOfLen(n) : n \in 0..MaxWords} \cup {TanglishText}

InitRule ==
    /\ text \in RuleTexts
    /\ llm_provider = "dummy"
    /\ groq_api_key = FALSE
    /\ featherless_api_key = FALSE
    /\ pc = "start"
    /\ calls = <<>>
    /\ raw = None
    /\ result = None
    /\ raised = None
    /\ ran_rule = FALSE
    /\ clock = 0
    /\ req = <<>>
    /\ json_files = <<>>
    /\ md_files = <<>>
    /\ AuxIdle

\* one direct call _rule_extract(text)
RuleExtract ==
    /\ pc = "start"
    /\ result' = Some(_rule_extract(text))
    /\ ran_rule' = TRUE
    /\ pc' = "done"
    /\ UNCHANGED <<text, llm_provider, groq_api_key, featherless_api_key,
                   calls, raw, raised>>
    /\ UNCHANGED pipeVars
    /\ UNCHANGED auxVars

NextRule == RuleExtract

SpecRule == InitRule /\ [][NextRule]_vars

-----------------------------------------------------------------------------
(* _run_pipeline and persistence_service: concurrent requests *)

Requests == 1..NumRequests

PipeTexts == {"Motor making noise", "fan hot"}

\* strftime("%S") and the like: two digits
Pad2(n) == IF n < 10 THEN "0" \o ToString(n) ELSE ToString(n)

\* generate_report_id at clock tick `now`; tick 0 is 2026-02-27 23:08:00 UTC
\* (the instant of the docstring), and strftime drops the fraction of the second
generate_report_id(now) ==
    "CLARA-" \o "20260227" \o "-" \o "2308" \o Pad2(now \div TicksPerSecond)

\* the dict written by save_report; `by` records the writing request
JsonPayload(r, now) ==
    [report_id |-> req[r].report_id, timestamp |-> now,
     transcript |-> req[r].transcript, intent |-> req[r].intent, by |-> r]

\* the markdown written by save_report; `by` records the writing request
MarkdownPayload(r) ==
    [transcript |-> req[r].transcript, intent |-> req[r].intent, by |-> r]

InitPipeline ==
    /\ text = ""
    /\ llm_provider = "dummy"
    /\ groq_api_key = FALSE
    /\ featherless_api_key = FALSE
    /\ pc = "idle"
    /\ calls = <<>>
    /\ raw = None
    /\ result = None
    /\ raised = None
    /\ ran_rule = FALSE
    /\ clock = 0
    /\ req \in [Requests -> {[pc |-> "start", transcript |-> t, intent |-> None,
                              report_id |-> ""] : t \in PipeTexts}]
    /\ json_files = <<>>
    /\ md_files = <<>>
    /\ AuxIdle

\* time passes
Tick ==
    /\ clock < MaxClock
    /\ clock' = clock + 1
    /\ UNCHANGED <<req, json_files, md_files>>
    /\ UNCHANGED routerVars
    /\ UNCHANGED auxVars

\* _run_pipeline lines 63-65 under the default LLM_PROVIDER=dummy:
\* extract_intent goes straight to _rule_extract
RunExtract(r) ==
    /\ req[r].pc = "start"
    /\ FirstExtractor(llm_provider) = "rule"
    /\ req' = [req EXCEPT ![r].intent = Some(_rule_extract(req[r].transcript)),
                          ![r].pc = "extracted"]
    /\ UNCHANGED <<clock, json_files, md_files>>
    /\ UNCHANGED routerVars
    /\ UNCHANGED auxVars

\* _run_pipeline line 67
GenerateReportId(r) ==
    /\ req[r].pc = "extracted"
    /\ req' = [req EXCEPT ![r].report_id = generate_report_id(clock),
                          ![r].pc = "has_id"]
    /\ UNCHANGED <<clock, json_files, md_files>>
    /\ UNCHANGED routerVars
    /\ UNCHANGED auxVars

\* save_report lines 30-40: open(json_path, "w") and dump
WriteJson(r) ==
    /\ req[r].pc = "has_id"
    /\ json_files' = (req[r].report_id :> JsonPayload(r, clock)) @@ json_files
    /\ req' = [req EXCEPT ![r].pc = "json_written"]
    /\ UNCHANGED <<clock, md_files>>
    /\ UNCHANGED routerVars
    /\ UNCHANGED auxVars

\* save_report lines 42-46: open(md_path, "w") and write
WriteMarkdown(r) ==
    /\ req[r].pc = "json_written"
    /\ md_files' = (req[r].report_id :> MarkdownPayload(r)) @@ md_files
    /\ req' = [req EXCEPT ![r].pc = "saved"]
    /\ UNCHANGED <<clock, json_files>>
    /\ UNCHANGED routerVars
    /\ UNCHANGED auxVars

\* _run_pipeline lines 80-89: the response carrying report_id
Respond(r) ==
    /\ req[r].pc = "saved"
    /\ req' = [req EXCEPT ![r].pc = "returned"]
    /\ UNCHANGED <<clock, json_files, md_files>>
    /\ UNCHANGED routerVars
    /\ UNCHANGED auxVars

NextPipeline ==
    \/ Tick
    \/ \E r \in Requests : RunExtract(r)
    \/ \E r \in Requests : GenerateReportId(r)
    \/ \E r \in Requests : WriteJson(r)
    \/ \E r \in Requests : WriteMarkdown(r)
    \/ \E r \in Requests : Respond(r)

SpecPipeline == InitPipeline /\ [][NextPipeline]_vars

-----------------------------------------------------------------------------
(* report_service: the confidence cap *)

_GENERIC_SYMPTOMS == {"unknown", "issue", "problem", ""}
_CONFIDENCE_CAP_GENERIC == 85
_CONFIDENCE_CAP_SPECIFIC == 95

Min(a, b) == IF a <= b THEN a ELSE b

\* _apply_confidence_cap with the generic cap for every symptom
_apply_confidence_cap_AlwaysGeneric(conf, sym) ==
    Min(conf, _CONFIDENCE_CAP_GENERIC)

_apply_confidence_cap(conf, sym) ==
    LET cap == IF strip(lower(sym)) \in _GENERIC_SYMPTOMS
               THEN _CONFIDENCE_CAP_GENERIC
               ELSE _CONFIDENCE_CAP_SPECIFIC
    IN  Min(conf, cap)

\* symptoms handed to the cap: generic ones in several spellings, specific ones
CapSymptoms == {"unknown", " Unknown ", "issue", "PROBLEM", "", "  ",
                "noise", "not working", "unknown issue", "Noise "}

InitCap ==
    /\ cap_confidence \in 0..MaxConfidence
    /\ cap_symptom \in CapSymptoms
    /\ capped = None
    /\ OthersIdle("cap")

\* one call _apply_confidence_cap(cap_confidence, cap_symptom)
ApplyConfidenceCap ==
    /\ capped = None
    /\ capped' = Some(_apply_confidence_cap(cap_confidence, cap_symptom))
    /\ UNCHANGED <<cap_confidence, cap_symptom>>
    /\ OthersUnchanged("cap")

NextCap == ApplyConfidenceCap

SpecCap == InitCap /\ [][NextCap]_vars

-----------------------------------------------------------------------------
(* codeswitch_service: language tag per token and language mix *)

\* characters of the Tamil block U+0B80..U+0BFF that occur in the inputs:
\* letters (category Lo) and signs (categories Mn and Mc)
TamilLetters == {"ச", "த", "ம", "ப", "ட", "ர", "ல"}
TamilSigns == {"்", "ா", "ோ"}

\* characters of the Malayalam block U+0D00..U+0D7F that occur in the inputs
\* (written in the block U+0C80..U+0CFF): letters and signs
MalayalamLetters == {"ಶ", "ಬ", "ದ"}
MalayalamSigns == {"್", "ಂ"}

Digits == {"0", "1", "2", "3", "4", "5", "6", "7", "8", "9"}

\* letters of other scripts that occur in the inputs
OtherLetters == {"ß", "é"}

\* ch.isascii() and ch.isalpha()
IsAsciiAlpha(ch) == \E i \in 1..26 : UpperCase[i] = ch \/ LowerCase[i] = ch

\* _char_lang with the digits counted as ASCII letters
_char_lang_DigitsAreEnglish(ch) ==
    IF ch \in TamilLetters \cup TamilSigns THEN "ta"
    ELSE IF ch \in MalayalamLetters \cup MalayalamSigns THEN "ml"
    ELSE IF IsAsciiAlpha(ch) \/ ch \in Digits THEN "en"
    ELSE "unk"

_char_lang(ch) ==
    IF ch \in TamilLetters \cup TamilSigns THEN "ta"
    ELSE IF ch \in MalayalamLetters \cup MalayalamSigns THEN "ml"
    ELSE IF IsAsciiAlpha(ch) THEN "en"
    ELSE "unk"

\* the class \w of re on str: alphanumeric characters and the underscore
\* (the signs of the two scripts are combining marks, which \w excludes)
IsWordChar(ch) ==
    \/ IsAsciiAlpha(ch)
    \/ ch \in Digits
    \/ ch = "_"
    \/ ch \in TamilLetters \cup MalayalamLetters \cup OtherLetters

\* re.sub(r"[^\w]", "", token)
RECURSIVE RemoveNonWord(_)
RemoveNonWord(token) ==
    IF token = "" THEN ""
    ELSE (IF IsWordChar(SubSeq(token, 1, 1)) THEN SubSeq(token, 1, 1) ELSE "")
         \o RemoveNonWord(Tail(token))

\* the keys of a Counter fed with the elements of seq, in insertion order
RECURSIVE KeysInOrder(_, _)
KeysInOrder(seq, seen) ==
    IF seq = <<>> THEN seen
    ELSE KeysInOrder(Tail(seq),
                     IF \E i \in 1..Len(seen) : seen[i] = Head(seq)
                     THEN seen ELSE Append(seen, Head(seq)))

\* the count the Counter holds for key
CountOf(key, seq) == Cardinality({i \in 1..Len(seq) : seq[i] = key})

\* the languages of the characters of cleaned, one per character
CharLangs(cleaned) == [i \in 1..Len(cleaned) |-> _char_lang(SubSeq(cleaned, i, i))]

\* Counter.most_common(1)[0][0]: the first key, in insertion order, of greatest count
MostCommon(keys, seq) ==
    keys[SetMin({i \in 1..Len(keys) :
                    \A j \in 1..Len(keys) : CountOf(keys[j], seq) <= CountOf(keys[i], seq)})]

\* round(n / d, 2) in hundredths: ties (they arise here only for the ratios
\* k/8, which binary floating point holds exactly) go to the even neighbour
Round2(n, d) ==
    LET q == (100 * n) \div d
        r == (100 * n) % d
    IN  IF 2 * r > d THEN q + 1
        ELSE IF 2 * r < d THEN q
        ELSE IF q % 2 = 0 THEN q ELSE q + 1

\* repr of the dict of a Counter: {'en': 3, 'unk': 1}
RECURSIVE DictRepr(_, _, _)
DictRepr(keys, seq, i) ==
    IF i > Len(keys) THEN ""
    ELSE (IF i > 1 THEN ", " ELSE "")
         \o "'" \o keys[i] \o "': " \o ToString(CountOf(keys[i], seq))
         \o DictRepr(keys, seq, i + 1)

\* ClassifyCounted with the hyphen rule tried after the single-script and
\* dominant-ratio rules
ClassifyCounted_HyphenRuleLast(token, langs, keys, dominant) ==
    LET total == Len(langs)
        dominant_count == CountOf(dominant, langs)
    IN  IF Len(keys) = 1
        THEN [lang |-> dominant,
              confidence |-> Min(95, 80 + (15 * dominant_count) \div total),
              reason |-> "all chars in " \o dominant \o " block"]
        ELSE IF 10 * dominant_count >= 8 * total
        THEN [lang |-> dominant, confidence |-> Round2(dominant_count, total),
              reason |-> "dominant " \o dominant \o " (" \o ToString(dominant_count)
                         \o "/" \o ToString(total) \o " chars)"]
        ELSE IF IsSubstr("-", token) /\ Len(keys) > 1
        THEN [lang |-> "mixed", confidence |-> 70,
              reason |-> "hyphenated mixed-script token"]
        ELSE [lang |-> "mixed", confidence |-> Round2(dominant_count, total),
              reason |-> "mixed scripts: {" \o DictRepr(keys, langs, 1) \o "}"]

\* ClassifyCounted with the dominant-ratio threshold 0.9 in place of 0.8
ClassifyCounted_Threshold90(token, langs, keys, dominant) ==
    LET total == Len(langs)
        dominant_count == CountOf(dominant, langs)
    IN  IF IsSubstr("-", token) /\ Len(keys) > 1
        THEN [lang |-> "mixed", confidence |-> 70,
              reason |-> "hyphenated mixed-script token"]
        ELSE IF Len(keys) = 1
        THEN [lang |-> dominant,
              confidence |-> Min(95, 80 + (15 * dominant_count) \div total),
              reason |-> "all chars in " \o dominant \o " block"]
        ELSE IF 10 * dominant_count >= 9 * total
        THEN [lang |-> dominant, confidence |-> Round2(dominant_count, total),
              reason |-> "dominant " \o dominant \o " (" \o ToString(dominant_count)
                         \o "/" \o ToString(total) \o " chars)"]
        ELSE [lang |-> "mixed", confidence |-> Round2(dominant_count, total),
              reason |-> "mixed scripts: {" \o DictRepr(keys, langs, 1) \o "}"]

\* _classify_token lines 39-54, for the character languages langs of the
\* non-empty cleaned token and their distinct values keys in insertion order
ClassifyCounted(token, langs, keys, dominant) ==
    LET total == Len(langs)
        dominant_count == CountOf(dominant, langs)
    IN  IF IsSubstr("-", token) /\ Len(keys) > 1
        THEN [lang |-> "mixed", confidence |-> 70,
              reason |-> "hyphenated mixed-script token"]
        ELSE IF Len(keys) = 1
        THEN [lang |-> dominant,
              confidence |-> Min(95, 80 + (15 * dominant_count) \div total),
              reason |-> "all chars in " \o dominant \o " block"]
        ELSE IF 10 * dominant_count >= 8 * total
        THEN [lang |-> dominant, confidence |-> Round2(dominant_count, total),
              reason |-> "dominant " \o dominant \o " (" \o ToString(dominant_count)
                         \o "/" \o ToString(total) \o " chars)"]
        ELSE [lang |-> "mixed", confidence |-> Round2(dominant_count, total),
              reason |-> "mixed scripts: {" \o DictRepr(keys, langs, 1) \o "}"]

\* _classify_token lines 35-40 on the cleaned token
ClassifyCleaned(token, langs) ==
    ClassifyCounted(token, langs, KeysInOrder(langs, <<>>),
                    MostCommon(KeysInOrder(langs, <<>>), langs))

_classify_token(token) ==
    IF RemoveNonWord(token) = ""
    THEN [lang |-> "unk", confidence |-> 50, reason |-> "punctuation / whitespace"]
    ELSE ClassifyCleaned(token, CharLangs(RemoveNonWord(token)))

\* str.split(): the maximal runs of characters that are not whitespace
RECURSIVE SplitFrom(_, _, _)
SplitFrom(s, current, acc) ==
    IF s = ""
    THEN (IF current = "" THEN acc ELSE Append(acc, current))
    ELSE IF IsSpace(SubSeq(s, 1, 1))
    THEN SplitFrom(Tail(s), "", IF current = "" THEN acc ELSE Append(acc, current))
    ELSE SplitFrom(Tail(s), current \o SubSeq(s, 1, 1), acc)

\* split that takes only the blank U+0020 as a separator
RECURSIVE SplitFromBlank(_, _, _)
SplitFromBlank(s, current, acc) ==
    IF s = ""
    THEN (IF current = "" THEN acc ELSE Append(acc, current))
    ELSE IF SubSeq(s, 1, 1) = " "
    THEN SplitFromBlank(Tail(s), "", IF current = "" THEN acc ELSE Append(acc, current))
    ELSE SplitFromBlank(Tail(s), current \o SubSeq(s, 1, 1), acc)

split_BlankOnly(s) == SplitFromBlank(s, "", <<>>)

split(s) == SplitFrom(s, "", <<>>)

\* TokenAnalysis(token=tok, lang=lang, confidence=conf, reason=reason)
TokenAnalysis(tok, c) ==
    [token |-> tok, lang |-> c.lang, confidence |-> c.confidence, reason |-> c.reason]

\* round(v / total, 3) in thousandths (a tie needs a total divisible by 16)
Round3(v, total) == RoundDiv(1000 * v, total)

\* the language mix with each count divided by the number of languages
LanguageMix_PerLanguage(langs) ==
    [k \in {langs[i] : i \in 1..Len(langs)} |->
        Round3(CountOf(k, langs), Max(Cardinality({langs[i] : i \in 1..Len(langs)}), 1))]

\* analyse_codeswitch lines 67-71 for the sequence langs of the tokens' tags
LanguageMix(langs) ==
    [k \in {langs[i] : i \in 1..Len(langs)} |->
        Round3(CountOf(k, langs), Max(Len(langs), 1))]

\* analyse_codeswitch lines 60-73 for the tokens raw_tokens
AnalyseTokens(analyses) ==
    [tokens |-> analyses,
     language_mix |-> LanguageMix([i \in 1..Len(analyses) |-> analyses[i].lang])]

analyse_codeswitch(t) ==
    AnalyseTokens([i \in 1..Len(split(t)) |->
                      TokenAnalysis(split(t)[i], _classify_token(split(t)[i]))])

\* tokens of every tag: en, en with a hyphen, ta and en joined by a hyphen,
\* ta, ml, digits, punctuation, en and a digit in equal parts, en at 4/5,
\* en at 4/5 with a hyphen, a letter of another script with an underscore and
\* a digit, digits at 4/5
CsTokens == {"motor", "pump-la", "பம்ப்-la", "சத்தம்", "ಶಬ್ದಂ",
             "123", "?", "a1", "abcd1", "abcd-1", "ß_1", "1234a"}

RECURSIVE CsTextsOfLen(_)
CsTextsOfLen(n) ==
    IF n = 0 THEN {""}
    ELSE IF n = 1 THEN CsTokens
    ELSE {w \o " " \o t : w \in CsTokens, t \in CsTextsOfLen(n - 1)}

\* up to MaxTokens tokens joined by blanks, and texts with other whitespace
CsTexts == UNION {CsTextsOfLen(n) : n \in 0..MaxTokens}
           \cup {"   ", "  motor   சத்தம் ", "motor\n123"}

InitCodeswitch ==
    /\ cs_text \in CsTexts
    /\ cs_result = None
    /\ OthersIdle("cs")

\* one call analyse_codeswitch(cs_text)
AnalyseCodeswitch ==
    /\ cs_result = None
    /\ cs_result' = Some(analyse_codeswitch(cs_text))
    /\ UNCHANGED cs_text
    /\ OthersUnchanged("cs")

NextCodeswitch == AnalyseCodeswitch

SpecCodeswitch == InitCodeswitch /\ [][NextCodeswitch]_vars

-----------------------------------------------------------------------------
(* report_service: generate_report *)

_RISK_MATRIX ==
    [urgency \in {"high", "medium", "low"} |->
        CASE urgency = "high" ->
               [level |-> "CRITICAL",
                sla |-> "Immediate response required - SLA: 2 hours",
                escalation |-> "L3 Field Engineer + Operations Manager"]
          [] urgency = "medium" ->
               [level |-> "ELEVATED",
                sla |-> "Scheduled intervention - SLA: 24 hours",
                escalation |-> "L2 Technical Supervisor"]
          [] urgency = "low" ->
               [level |-> "MONITORED",
                sla |-> "Routine maintenance queue - SLA: 72 hours",
                escalation |-> "L1 Field Technician"]]

\* the keys of _HYPOTHESIS_MAP, _ACTIONS_MAP and _GERMAN_SUMMARY_MAP
_HYPOTHESIS_KEYS == {"overheating", "noise", "vibration", "not working",
                     "charging failure", "low battery", "unknown"}

\* dict.get(key, default) on a function
Get(d, key, default) == IF key \in DOMAIN d THEN d[key] ELSE default

\* str.upper() on one character
UpperChar(c) ==
    IF \E i \in 1..26 : LowerCase[i] = c
    THEN UpperCase[CHOOSE i \in 1..26 : LowerCase[i] = c]
    ELSE c

RECURSIVE upper(_)
upper(s) == IF s = "" THEN "" ELSE UpperChar(SubSeq(s, 1, 1)) \o upper(Tail(s))

\* format(x, ".0%") for x in hundredths
Percent(x) == ToString(x) \o "%"

\* `x or ""` for an optional str
OrEmpty(opt) == IF opt = None THEN "" ELSE opt[1]

\* "{n:05d}" for 0 <= n < 100000
RECURSIVE ZeroPad(_, _)
ZeroPad(str, width) == IF Len(str) >= width THEN str ELSE ZeroPad("0" \o str, width)

\* the rows of the language table: language_mix.items() in insertion order,
\* which is the order of first occurrence of each tag among the tokens
lang_lines(codeswitch) ==
    LET langs == [i \in 1..Len(codeswitch.tokens) |-> codeswitch.tokens[i].lang]
        keys  == KeysInOrder(langs, <<>>)
    IN  [i \in 1..Len(keys) |->
            "| " \o upper(keys[i]) \o " | "
            \o ToString(RoundDiv(codeswitch.language_mix[keys[i]], 10)) \o "% | "
            \o (IF i = 1 THEN "Primary" ELSE "Secondary") \o " |"]

\* generate_report lines 215-234
conf_factors(intent, device_lower, symptom_lower, comp_lower, is_multilingual, raw_confidence, capped_confidence) ==
    <<IF device_lower # "" /\ device_lower # "unknown"
      THEN "Device identifier resolved (´" \o intent.device \o "´)"
      ELSE "Device identifier **not resolved** - reduces confidence">>
    \o
    <<IF symptom_lower # "" /\ symptom_lower \notin _GENERIC_SYMPTOMS
      THEN "Specific symptom matched (´" \o intent.symptom \o "´)"
      ELSE "Symptom is generic or unresolved - limits confidence">>
    \o
    <<IF comp_lower # "" /\ comp_lower # "unknown"
      THEN "Suspected component identified (´" \o OrEmpty(intent.suspected_component) \o "´)"
      ELSE "No suspected component identified">>
    \o
    (IF is_multilingual
     THEN <<"Code-switched input: pattern recognition reliability may be reduced">>
     ELSE <<>>)
    \o
    (IF capped_confidence < raw_confidence
     THEN <<"Raw score " \o Percent(raw_confidence) \o " capped at "
            \o Percent(capped_confidence) \o " (generic symptom ceiling: "
            \o Percent(_CONFIDENCE_CAP_GENERIC) \o ")">>
     ELSE <<>>)

\* completeness_checks with only "unknown" taken as an unresolved symptom
completeness_checks_OnlyUnknownGeneric(transcript, intent, device_lower, symptom_lower, comp_lower) ==
    << [label |-> "Transcript non-empty", ok |-> strip(transcript) # ""],
       [label |-> "Device identified", ok |-> device_lower \notin {"", "unknown"}],
       [label |-> "Symptom identified", ok |-> symptom_lower # "unknown"],
       [label |-> "Component identified", ok |-> comp_lower \notin {"", "unknown"}],
       [label |-> "Urgency set", ok |-> intent.urgency \in {"low", "medium", "high"}] >>

\* generate_report lines 238-244
completeness_checks(transcript, intent, device_lower, symptom_lower, comp_lower) ==
    << [label |-> "Transcript non-empty", ok |-> strip(transcript) # ""],
       [label |-> "Device identified", ok |-> device_lower \notin {"", "unknown"}],
       [label |-> "Symptom identified", ok |-> symptom_lower \notin _GENERIC_SYMPTOMS],
       [label |-> "Component identified", ok |-> comp_lower \notin {"", "unknown"}],
       [label |-> "Urgency set", ok |-> intent.urgency \in {"low", "medium", "high"}] >>

\* assumption_flags with the closing line appended whenever the three fields
\* are resolved, whatever the language mix
assumption_flags_ClosingLineIgnoresLanguage(device_lower, symptom_lower, comp_lower, is_multilingual) ==
    LET flags ==
            (IF device_lower \in {"", "unknown"}
             THEN <<"Device defaulted to 'unknown' - field report did not name a specific unit.">>
             ELSE <<>>)
            \o
            (IF symptom_lower \in _GENERIC_SYMPTOMS
             THEN <<"Symptom could not be specifically classified; generic fault branch applied.">>
             ELSE <<>>)
            \o
            (IF comp_lower \in {"", "unknown"}
             THEN <<"Suspected component not derived; hypothesis uses worst-case fault tree.">>
             ELSE <<>>)
    IN  IF flags = <<>>
        THEN <<"No significant assumptions detected - high-confidence extraction.">>
        ELSE flags \o
             (IF ~is_multilingual
              THEN <<"Input was single-language; code-switch analysis returned no mixed tokens.">>
              ELSE <<>>)

\* generate_report lines 253-269
assumption_flags(device_lower, symptom_lower, comp_lower, is_multilingual) ==
    LET flags ==
            (IF device_lower \in {"", "unknown"}
             THEN <<"Device defaulted to 'unknown' - field report did not name a specific unit.">>
             ELSE <<>>)
            \o
            (IF symptom_lower \in _GENERIC_SYMPTOMS
             THEN <<"Symptom could not be specifically classified; generic fault branch applied.">>
             ELSE <<>>)
            \o
            (IF comp_lower \in {"", "unknown"}
             THEN <<"Suspected component not derived; hypothesis uses worst-case fault tree.">>
             ELSE <<>>)
            \o
            (IF ~is_multilingual
             THEN <<"Input was single-language; code-switch analysis returned no mixed tokens.">>
             ELSE <<>>)
    IN  IF flags = <<>>
        THEN <<"No significant assumptions detected - high-confidence extraction.">>
        ELSE flags

\* the reference id of line 275 for the value h of hash(transcript)
ReferenceId(now, h) ==
    "CLARA-" \o now.ymd \o "-" \o ZeroPad(ToString(Abs(h) % 100000), 5)

\* the parts that the template of lines 272-422 interpolates, in the order of
\* their first use; the text between them is fixed
Dossier(transcript, codeswitch, intent, now, settings_enterprise_mode, h, device_lower, symptom_lower, comp_lower, is_multilingual, capped_confidence, checks) ==
    [ reference_id      |-> ReferenceId(now, h),
      risk              |-> Get(_RISK_MATRIX, intent.urgency, _RISK_MATRIX["low"]),
      generated         |-> now,
      enterprise        |-> IF settings_enterprise_mode THEN "ENABLED" ELSE "DISABLED",
      symptom           |-> intent.symptom,
      device            |-> intent.device,
      lang_style        |-> IF is_multilingual
                            THEN "multilingual field communication (code-switched)"
                            ELSE "informal field communication (single language)",
      capped_confidence |-> Percent(capped_confidence),
      completeness_pct  |-> Percent((100 * Cardinality({i \in 1..Len(checks) : checks[i].ok}))
                                    \div Len(checks)),
      completeness_passed |-> Cardinality({i \in 1..Len(checks) : checks[i].ok}),
      transcript        |-> transcript,
      lang_lines        |-> lang_lines(codeswitch),
      total_tokens      |-> Len(codeswitch.tokens),
      lang_switch_note  |-> IF is_multilingual THEN "Yes - multilingual utterance"
                            ELSE "No - monolingual utterance",
      intent            |-> intent.intent,
      urgency           |-> upper(intent.urgency),
      component_note    |-> IF comp_lower \notin {"", "unknown"}
                            THEN "Suspected component: **" \o OrEmpty(intent.suspected_component) \o "**"
                            ELSE "Suspected component: *Not identified at this stage*",
      hypothesis        |-> IF intent.symptom \in _HYPOTHESIS_KEYS
                            THEN intent.symptom ELSE "unknown",
      capped_from       |-> IF capped_confidence < intent.confidence_score
                            THEN "  *(score was capped from raw "
                                 \o Percent(intent.confidence_score) \o ")*"
                            ELSE "",
      conf_reasoning    |-> conf_factors(intent, device_lower, symptom_lower, comp_lower,
                                         is_multilingual, intent.confidence_score,
                                         capped_confidence),
      completeness_rows |-> checks,
      assumption_list   |-> assumption_flags(device_lower, symptom_lower, comp_lower,
                                             is_multilingual),
      cross_lang        |-> settings_enterprise_mode ]

\* generate_report lines 173-270 ahead of the template
ReportParts(transcript, codeswitch, intent, now, settings_enterprise_mode, h, device_lower, symptom_lower, comp_lower) ==
    Dossier(transcript, codeswitch, intent, now, settings_enterprise_mode, h,
            device_lower, symptom_lower, comp_lower,
            Cardinality(DOMAIN codeswitch.language_mix) > 1,
            _apply_confidence_cap(intent.confidence_score, intent.symptom),
            completeness_checks(transcript, intent, device_lower, symptom_lower,
                                comp_lower))

\* generate_report at clock value now, with Settings.enterprise_mode as given
\* and h the value of hash(transcript) in the calling process
generate_report(transcript, codeswitch, intent, now, settings_enterprise_mode, h) ==
    ReportParts(transcript, codeswitch, intent, now, settings_enterprise_mode, h,
                strip(lower(intent.device)), strip(lower(intent.symptom)),
                strip(lower(OrEmpty(intent.suspected_component))))

\* the server processes (a restarted server or a second worker is another process)
Procs == {"p1", "p2"}

\* the two invocations that are compared
Invocations == {"a", "b"}

ReportTranscripts == {"Motor making noise", "motor சத்தம் xyz"}

\* values of hash(str): any 64-bit signed integer can occur; two of them, one
\* negative, stand for all
HashValues == {-1234567890, 42}

\* clock values: 2026-02-27 23:08:00 UTC and the midnight after
ReportNows == {[ymd |-> "20260227", hms |-> "230800"],
               [ymd |-> "20260228", hms |-> "000000"]}

\* an IntentResult as a provider returns it: generic symptom, confidence 0.99
ProviderIntent(t) ==
    [ intent |-> "report_issue", device |-> "motor pump", symptom |-> "unknown",
      suspected_component |-> None, user_query |-> t, urgency |-> "high",
      confidence_score |-> 99, confidence_ulps |-> 0,
      follow_up_questions |-> <<>> ]

ReportIntents(t) == {_rule_extract(t), ProviderIntent(t)}

\* the arguments of an invocation on transcript t, as _run_pipeline passes them
ArgsFor(t) ==
    {[proc |-> p, transcript |-> t, codeswitch |-> analyse_codeswitch(t),
      intent |-> i, now |-> n, markdown |-> None] :
        p \in Procs, i \in ReportIntents(t), n \in ReportNows}

GenArgs == UNION {ArgsFor(t) : t \in ReportTranscripts}

\* PYTHONHASHSEED is not set: each process salts hash(str) at its start
InitReport ==
    /\ str_hash \in [Procs -> [ReportTranscripts -> HashValues]]
    /\ enterprise_mode \in BOOLEAN
    /\ gen \in [Invocations -> GenArgs]
    /\ OthersIdle("rep")

\* invocation i runs generate_report in its process
GenerateReport(i) ==
    /\ gen[i].markdown = None
    /\ gen' = [gen EXCEPT ![i].markdown =
                  Some(generate_report(gen[i].transcript, gen[i].codeswitch,
                                       gen[i].intent, gen[i].now, enterprise_mode,
                                       str_hash[gen[i].proc][gen[i].transcript]))]
    /\ UNCHANGED <<str_hash, enterprise_mode>>
    /\ OthersUnchanged("rep")

NextReport == \E i \in Invocations : GenerateReport(i)

SpecReport == InitReport /\ [][NextReport]_vars

-----------------------------------------------------------------------------
(* report_summarizer: summarise_report and analyse_executive_report *)

\* s repeated n times
RECURSIVE Repeat(_, _)
Repeat(s, n) ==
    IF n = 0 THEN ""
    ELSE IF n % 2 = 0 THEN Repeat(s \o s, n \div 2)
    ELSE s \o Repeat(s \o s, n \div 2)

\* the limit of CPython (3.11 on, and the security releases of 3.7 to 3.10) on
\* the digits of a str handed to int(): sys.int_info.default_max_str_digits
MAX_STR_DIGITS == 4300

DigitValue(c) == CHOOSE d \in 0..9 : ToString(d) = c

\* the value of a str of decimal digits
RECURSIVE DecimalValue(_)
DecimalValue(s) ==
    IF s = "" THEN 0
    ELSE 10 * DecimalValue(SubSeq(s, 1, Len(s) - 1)) + DigitValue(SubSeq(s, Len(s), Len(s)))

\* int(s) for a non-empty str of decimal digits: the value, or ValueError when
\* s has more than MAX_STR_DIGITS digits
int(s) ==
    IF Len(s) > MAX_STR_DIGITS
    THEN [ok |-> FALSE, exc |-> "ValueError", value |-> 0]
    ELSE [ok |-> TRUE, exc |-> "", value |-> DecimalValue(s)]

\* a report text, given by what the searches find in it: exec_summary is the
\* value of _extract_executive_summary; device, symptom and urgency tell whether
\* the searches of lines 314-316 match; confidence is the digit group of the
\* match of line 317 (None when there is no match)
ReportTexts ==
    {[exec_summary |-> e, device |-> d, symptom |-> s, urgency |-> u, confidence |-> c] :
        e \in {"", "A field incident has been registered."},
        d \in BOOLEAN, s \in BOOLEAN, u \in BOOLEAN,
        c \in {None, Some("59"), Some("60"), Some("085"),
               Some(Repeat("9", MAX_STR_DIGITS + 1))}}

\* what a provider function does: it raises, or it returns its dict
Raises(e) == [kind |-> "raise", exc |-> e, payload |-> <<>>]
Returns(p) == [kind |-> "return", exc |-> "", payload |-> p]

\* exceptions of the provider functions: no API key or HTTP status (RuntimeError),
\* empty or non-JSON content (ValueError), a response body of another shape
\* (KeyError), a failed connection
ProviderExceptions == {"RuntimeError", "ValueError", "KeyError", "ConnectError"}

\* lengths of the stripped, non-empty summary a provider returns
SummaryLengths == {1, 9, 10, 11, 1000, 1001}

\* _summarise_groq / _summarise_deepseek
SummariseOutcomes ==
    {Raises(e) : e \in ProviderExceptions}
    \cup {Returns([summary |-> Repeat("x", n)]) : n \in SummaryLengths}

\* the values of core_summary and of confidence in the JSON object of a reply
CoreSummaries ==
    {JStr(Repeat("x", n)) : n \in {19, 20, 1200, 1201}}
    \cup {JNum(4200), JList([i \in 1..25 |-> "x"])}

ConfidenceLabels == {JStr("high"), JStr("medium"), JStr("low"), JStr("HIGH"), JNum(100)}

\* _analyse_executive_groq / _analyse_executive_deepseek
AnalyseOutcomes ==
    {Raises(e) : e \in ProviderExceptions}
    \cup {Returns([core_summary |-> cs, confidence |-> c]) :
             cs \in CoreSummaries, c \in ConfidenceLabels}

ProviderOutcomes(fn) ==
    IF fn = "summarise_report" THEN SummariseOutcomes ELSE AnalyseOutcomes

\* len(x) of a JSON value: [ok, n]; a number has no len() (TypeError)
len(x) ==
    IF x.t \in {"str", "list"} THEN [ok |-> TRUE, n |-> Len(x.v)]
    ELSE [ok |-> FALSE, n |-> 0]

\* SummaryValid with the upper bound 500 of the comment of line 377
SummaryValid_Upto500(payload) ==
    ~(Len(payload.summary) < 10 \/ Len(payload.summary) > 500)

\* summarise_report lines 375-380: the payload is not skipped
SummaryValid(payload) ==
    ~(Len(payload.summary) < 10 \/ Len(payload.summary) > 1000)

\* analyse_executive_report lines 436-450: "ok" (not skipped), "skip" or "raise"
\* (len() of a value without length, caught at line 461)
AnalysisCheck(payload) ==
    IF ~len(payload.core_summary).ok THEN "raise"
    ELSE IF len(payload.core_summary).n < 20 \/ len(payload.core_summary).n > 1200
    THEN "skip"
    ELSE IF payload.confidence \notin {JStr("high"), JStr("medium"), JStr("low")}
    THEN "skip"
    ELSE "ok"

\* the provider's result is returned to the caller
Accepted(fn, o) ==
    /\ o.kind = "return"
    /\ IF fn = "summarise_report" THEN SummaryValid(o.payload)
       ELSE AnalysisCheck(o.payload) = "ok"

\* the dict returned for an accepted payload (latency_ms and model left out)
ProviderResult(fn, name, report, payload) ==
    IF fn = "summarise_report"
    THEN [executive_summary |-> report.exec_summary, core_summary |-> JStr(payload.summary),
          confidence |-> JNull, provider |-> name, fallback_used |-> FALSE]
    ELSE [executive_summary |-> "", core_summary |-> payload.core_summary,
          confidence |-> payload.confidence, provider |-> name, fallback_used |-> FALSE]

\* the providers lists of lines 367-370 and 426-429
providers == <<"groq", "deepseek">>

\* the entry of the providers list after name, or "fallback" after the last
AfterProvider(name) ==
    IF \E i \in 1..(Len(providers) - 1) : providers[i] = name
    THEN providers[(CHOOSE i \in 1..(Len(providers) - 1) : providers[i] = name) + 1]
    ELSE "fallback"

\* one pass of the loop of lines 372-393 / 431-463 with outcome o of the call
AfterProviderCall(name, o) ==
    /\ sum_calls' = Append(sum_calls, [provider |-> name, outcome |-> o])
    /\ IF Accepted(sum_fn, o)
       THEN /\ sum_result' = Some(ProviderResult(sum_fn, name, sum_report, o.payload))
            /\ sum_pc' = "done"
       ELSE /\ sum_pc' = AfterProvider(name)
            /\ UNCHANGED sum_result

TryProvider(name) ==
    /\ sum_pc = name
    /\ \E o \in ProviderOutcomes(sum_fn) : AfterProviderCall(name, o)
    /\ UNCHANGED <<sum_fn, sum_report, sum_raised>>
    /\ OthersUnchanged("sum")

TryGroq == TryProvider("groq")
TryDeepSeek == TryProvider("deepseek")

\* _analyse_executive_fallback lines 320-333 once the digit group, if any, is
\* converted: conv is int(group) or, when it is not evaluated, a dummy
FallbackConfidence(fields_found, has_confidence, conv) ==
    IF fields_found >= 3 /\ has_confidence /\ conv.value >= 60 THEN "high"
    ELSE IF fields_found >= 2 THEN "medium"
    ELSE "low"

\* the number of searches of lines 314-317 that match
FieldsFound(report) ==
    Cardinality({f \in {"device", "symptom", "urgency"} : report[f]})
    + (IF report.confidence # None THEN 1 ELSE 0)

\* int(confidence_match.group(1)) where line 328 evaluates it
Conversion(report) ==
    IF FieldsFound(report) >= 3 /\ report.confidence # None
    THEN int(report.confidence[1])
    ELSE [ok |-> TRUE, exc |-> "", value |-> 0]

\* lines 395-404: _summarise_fallback
SummariseFallback ==
    /\ sum_pc = "fallback"
    /\ sum_fn = "summarise_report"
    /\ sum_result' = Some([executive_summary |-> sum_report.exec_summary,
                           core_summary |-> JStr(sum_report.exec_summary),
                           confidence |-> JNull, provider |-> "fallback_regex",
                           fallback_used |-> TRUE])
    /\ sum_pc' = "done"
    /\ UNCHANGED <<sum_fn, sum_report, sum_calls, sum_raised>>
    /\ OthersUnchanged("sum")

\* lines 465-474: _analyse_executive_fallback, outside every try block
AnalyseFallback ==
    /\ sum_pc = "fallback"
    /\ sum_fn = "analyse_executive_report"
    /\ IF Conversion(sum_report).ok
       THEN /\ sum_result' = Some([executive_summary |-> "",
                   core_summary |-> JStr(sum_report.exec_summary),
                   confidence |-> JStr(FallbackConfidence(FieldsFound(sum_report),
                                           sum_report.confidence # None,
                                           Conversion(sum_report))),
                   provider |-> "fallback_regex", fallback_used |-> TRUE])
            /\ sum_pc' = "done"
            /\ UNCHANGED sum_raised
       ELSE /\ sum_raised' = Some(Conversion(sum_report).exc)
            /\ sum_pc' = "raised"
            /\ UNCHANGED sum_result
    /\ UNCHANGED <<sum_fn, sum_report, sum_calls>>
    /\ OthersUnchanged("sum")

InitSummary ==
    /\ sum_fn \in {"summarise_report", "analyse_executive_report"}
    /\ sum_report \in ReportTexts
    /\ sum_pc = providers[1]
    /\ sum_calls = <<>>
    /\ sum_result = None
    /\ sum_raised = None
    /\ OthersIdle("sum")

NextSummary ==
    \/ TryGroq
    \/ TryDeepSeek
    \/ SummariseFallback
    \/ AnalyseFallback

SpecSummary == InitSummary /\ [][NextSummary]_vars

-----------------------------------------------------------------------------
(* routes/process.py: POST /process_text and POST /clarify_report, served *)
(* one request after the other under the default LLM_PROVIDER=dummy        *)

\* request bodies of POST /process_text: no text field, "", a blank, a sentence
ProcessTextBodies ==
    {[text |-> t, report_id |-> None, clarification_answers |-> <<>>,
      additional_context |-> None] :
        t \in {None, Some(""), Some(" "), Some("Motor making noise")}}

\* request bodies of POST /clarify_report: no report_id, the id of a report
\* written at clock 0, an id that no report has
ClarifyBodies ==
    {[text |-> None, report_id |-> i, clarification_answers |-> a[1],
      additional_context |-> a[2]] :
        i \in {None, Some(generate_report_id(0)), Some("CLARA-19990101-000000")},
        a \in {<< <<>>, None >>,
               << << <<"Which part?", "bearing">> >>, Some("after rain") >>}}

\* ProcessTextRequest without the constraint min_length=1
ProcessTextRequestValid_NoMinLength(body) ==
    body.text # None

\* ProcessTextRequest: text is required and has min_length=1
ProcessTextRequestValid(body) ==
    /\ body.text # None
    /\ Len(body.text[1]) >= 1

\* ClarifyReportRequest: report_id is required
ClarifyReportRequestValid(body) ==
    body.report_id # None

\* the request model of the endpoint accepts the body
BodyValid(endpoint, body) ==
    IF endpoint = "process_text" THEN ProcessTextRequestValid(body)
    ELSE ClarifyReportRequestValid(body)

\* get_report: the JSON of the report (report_markdown left out), or None
get_report(report_id) ==
    IF report_id \in DOMAIN json_files THEN Some(json_files[report_id]) ELSE None

\* clarify_report lines 234-240
RECURSIVE ClarificationParts(_)
ClarificationParts(answers) ==
    IF answers = <<>> THEN <<>>
    ELSE <<"[Clarification] " \o Head(answers)[1] \o ": " \o Head(answers)[2]>>
         \o ClarificationParts(Tail(answers))

enriched_transcript(original_transcript, body) ==
    join(" | ",
         <<original_transcript>>
         \o ClarificationParts(body.clarification_answers)
         \o (IF OrEmpty(body.additional_context) # ""
             THEN <<"[Additional context] " \o body.additional_context[1]>>
             ELSE <<>>))

\* the stages of _run_pipeline, in the order of lines 63-69
PipelineStages == <<"codeswitch", "intent", "report", "persist">>

\* the response is sent and the request is over
Finish(r) ==
    /\ http_log' = Append(http_log, r)
    /\ http_req' = None

\* _run_pipeline(transcript, provider) for request r with report id `id`; of the
\* payload the files keep what the routes read back (codeswitch_analysis and
\* report_text are functions of the transcript)
RunPipelineAs(r, transcript, id) ==
    /\ json_files' = (id :> [report_id |-> id, timestamp |-> clock,
                             transcript |-> transcript,
                             intent |-> _rule_extract(transcript)]) @@ json_files
    /\ md_files' = (id :> [transcript |-> transcript]) @@ md_files
    /\ Finish([r EXCEPT !.pc = "responded", !.status = 200,
                        !.stages = PipelineStages, !.report_id = id])

\* an exception leaves the handler: the server answers 500
Unhandled(r, e) ==
    /\ Finish([r EXCEPT !.pc = "responded", !.status = 500, !.exc = e])
    /\ UNCHANGED <<json_files, md_files>>

\* a request arrives
Receive ==
    /\ http_req = None
    /\ Len(http_log) < MaxHttpRequests
    /\ \E e \in {"process_text", "clarify_report"} :
          \E b \in IF e = "process_text" THEN ProcessTextBodies ELSE ClarifyBodies :
              http_req' = Some([endpoint |-> e, body |-> b, pc |-> "received",
                                status |-> 0, stages |-> <<>>, exc |-> "",
                                report_id |-> ""])
    /\ UNCHANGED <<drafts, http_log, pipeVars>>
    /\ OthersUnchanged("http")

\* the body is validated against the request model before the handler runs;
\* a body that fails is answered with 422
Validate ==
    /\ http_req # None
    /\ http_req[1].pc = "received"
    /\ IF BodyValid(http_req[1].endpoint, http_req[1].body)
       THEN /\ http_req' = Some([http_req[1] EXCEPT !.pc = "validated"])
            /\ UNCHANGED http_log
       ELSE Finish([http_req[1] EXCEPT !.pc = "responded", !.status = 422])
    /\ UNCHANGED <<drafts, pipeVars>>
    /\ OthersUnchanged("http")

\* process_text lines 97-100
ProcessText ==
    /\ http_req # None
    /\ http_req[1].pc = "validated"
    /\ http_req[1].endpoint = "process_text"
    /\ RunPipelineAs(http_req[1], http_req[1].body.text[1], generate_report_id(clock))
    /\ UNCHANGED <<drafts, clock, req>>
    /\ OthersUnchanged("http")

\* clarify_report lines 218-247 for the report id `id` of request r
Clarify(r, id) ==
    IF id \in DOMAIN drafts
    THEN /\ drafts' = [k \in DOMAIN drafts \ {id} |-> drafts[k]]
         /\ RunPipelineAs(r, enriched_transcript(drafts[id].transcript, r.body),
                          generate_report_id(clock))
    ELSE /\ UNCHANGED drafts
         /\ IF get_report(id) = None
            THEN \* persisted is None: persisted.get raises AttributeError, which
                 \* `except FileNotFoundError` does not catch
                 Unhandled(r, "AttributeError")
            ELSE RunPipelineAs(r,
                     enriched_transcript(get_report(id)[1].transcript, r.body),
                     generate_report_id(clock))

ClarifyReport ==
    /\ http_req # None
    /\ http_req[1].pc = "validated"
    /\ http_req[1].endpoint = "clarify_report"
    /\ Clarify(http_req[1], http_req[1].body.report_id[1])
    /\ UNCHANGED <<clock, req>>
    /\ OthersUnchanged("http")

\* the server starts with an empty draft store (nothing ever adds a draft) and
\* an empty reports directory
InitRoutes ==
    /\ drafts = <<>>
    /\ http_req = None
    /\ http_log = <<>>
    /\ PipeIdle
    /\ OthersIdle("http")

NextRoutes ==
    \/ Tick
    \/ Receive
    \/ Validate
    \/ ProcessText
    \/ ClarifyReport

SpecRoutes == InitRoutes /\ [][NextRoutes]_vars

-----------------------------------------------------------------------------
(* intent_service: _parse_intent_json on its own, over wrapped replies *)

\* payloads of a reply: the JSON documents and three texts that are not JSON
ParsePayloads == {d.doc : d \in JSON_DOCS} \cup {"", "not json", "{\"intent\":"}

\* ways a provider wraps its payload
ParseWrappings ==
    {"bare", "blank", "fence_lines", "fence_tag_lines", "fence_same_line",
     "fence_open_same_line", "fence_close_same_line", "preamble", "postamble",
     "preamble_postamble", "preamble_fence", "fence_postamble", "brace_preamble"}

\* the reply that wraps payload p in the way w
Wrap(w, p) ==
    CASE w = "bare"                  -> p
      [] w = "blank"                 -> "  \n" \o p \o "\n "
      [] w = "fence_lines"           -> FENCE \o "\n" \o p \o "\n" \o FENCE
      [] w = "fence_tag_lines"       -> FENCE \o "json\n" \o p \o "\n" \o FENCE
      [] w = "fence_same_line"       -> FENCE \o "json " \o p \o " " \o FENCE
      [] w = "fence_open_same_line"  -> FENCE \o p \o "\n" \o FENCE
      [] w = "fence_close_same_line" -> FENCE \o "json\n" \o p \o FENCE
      [] w = "preamble"              -> "Here is the JSON: " \o p
      [] w = "postamble"             -> p \o "\nHope this helps."
      [] w = "preamble_postamble"    -> "Here is the JSON:\n" \o p \o "\nHope this helps."
      [] w = "preamble_fence"        -> "Sure:\n" \o FENCE \o "json\n" \o p \o "\n" \o FENCE
      [] w = "fence_postamble"       -> FENCE \o "json\n" \o p \o "\n" \o FENCE \o "\nHope this helps."
      [] w = "brace_preamble"        -> "Use {} for no value. " \o p

ParseTexts == {"Motor is noisy", "fan issue"}

InitParse ==
    /\ parse_payload \in ParsePayloads
    /\ parse_wrap \in ParseWrappings
    /\ parse_text \in ParseTexts
    /\ parse_out = None
    /\ OthersIdle("parse")

\* _parse_intent_json(raw, text) is called; an exception it raises is recorded
ParseIntentJson ==
    /\ parse_out = None
    /\ parse_out' = Some(_parse_intent_json(Wrap(parse_wrap, parse_payload), parse_text))
    /\ UNCHANGED <<parse_payload, parse_wrap, parse_text>>
    /\ OthersUnchanged("parse")

NextParse == ParseIntentJson

SpecParse == InitParse /\ [][NextParse]_vars

-----------------------------------------------------------------------------
(* routes/process.py: _run_pipeline from the extracted intent to the response *)

\* transcripts: one language, two languages, a blank (accepted by min_length=1)
DossierTranscripts == {"Motor making noise", "motor சத்தம் xyz", " "}

\* IntentResult objects an extractor can return: every field combination the
\* schema allows over resolved, defaulted and differently spelt values
DossierIntents(t) ==
    {_rule_extract(t)} \cup
    {[ intent |-> "report_issue", device |-> d, symptom |-> s,
       suspected_component |-> c, user_query |-> t, urgency |-> u,
       confidence_score |-> k, confidence_ulps |-> 0,
       follow_up_questions |-> <<>> ] :
        d \in {"motor pump", "unknown", "", " Unknown "},
        s \in {"noise", "unknown", "issue", "Problem ", ""},
        c \in {None, Some("bearing"), Some("unknown"), Some("")},
        u \in {"low", "high"},
        k \in {30, 90, 100}}

\* generate_report storing the capped confidence in its argument
IntentAfterReport_CapStored(intent) ==
    [intent EXCEPT !.confidence_score = _apply_confidence_cap(@, intent.symptom)]

\* the IntentResult object after generate_report has run: the function reads
\* intent.confidence_score into a local (line 179) and assigns no attribute
IntentAfterReport(intent) == intent

InitDossier ==
    /\ dos_transcript \in DossierTranscripts
    /\ dos_intent \in {Some(i) : i \in DossierIntents(dos_transcript)}
    /\ dos_response = None
    /\ OthersIdle("dos")

\* _run_pipeline lines 63-65 and 81-90 (persistence left out): the dossier is
\* generated from the intent object, then the response takes the same object
SynthesizeReport ==
    /\ dos_response = None
    /\ \E n \in ReportNows : \E h \in HashValues : \E e \in BOOLEAN :
          dos_response' =
              Some([transcript |-> dos_transcript,
                    intent |-> IntentAfterReport(dos_intent[1]),
                    report_text |-> generate_report(dos_transcript,
                                        analyse_codeswitch(dos_transcript),
                                        dos_intent[1], n, e, h)])
    /\ dos_intent' = Some(IntentAfterReport(dos_intent[1]))
    /\ UNCHANGED dos_transcript
    /\ OthersUnchanged("dos")

NextDossier == SynthesizeReport

SpecDossier == InitDossier /\ [][NextDossier]_vars

-----------------------------------------------------------------------------
(* Properties of extract_intent (specification Spec) *)

Terminated == pc \in {"done", "raised"}

IsFirstCall(i) == Len(calls[i].messages) = 2
IsRepairCall(i) == Len(calls[i].messages) = 4

\* the providers extract_intent is configured to try
ActiveChain ==
    IF lower(llm_provider) = "groq" THEN {"Groq", "Featherless"}
    ELSE IF lower(llm_provider) = "featherless" THEN {"Featherless"}
    ELSE {}

\* C1: for every text, provider setting and provider behaviour, extract_intent
\* returns an IntentRecord and no exception leaves it.
C1_NeverRaises ==
    /\ raised = None
    /\ pc # "raised"
    /\ pc = "done" => result # None

\* C2: when every provider of the active chain has been tried and none gave a
\* valid record, extract_intent returns exactly _rule_extract(text).
C2_ExhaustedChainGivesRuleRecord ==
    ( /\ Terminated
      /\ \A p \in ActiveChain : \E i \in 1..Len(calls) : calls[i].provider = p
      /\ \A i \in 1..Len(calls) : calls[i].outcome # "valid" )
    => /\ raised = None
       /\ result = Some(_rule_extract(text))

\* C3: providers are called one after the other in chain order (Groq before
\* Featherless); Featherless is called only after Groq has definitively failed
\* (a RuntimeError, or an invalid reply to the repair call); a valid record
\* ends the calls and the rule-based extractor is then not run.
C3_SequentialChainOrder ==
    /\ \A i, j \in 1..Len(calls) :
          (i < j /\ calls[i].provider = "Featherless") => calls[j].provider = "Featherless"
    /\ \A j \in 1..Len(calls) :
          (calls[j].provider = "Featherless" /\ IsFirstCall(j)
             /\ lower(llm_provider) = "groq")
          => /\ j > 1
             /\ calls[j - 1].provider = "Groq"
             /\ \/ calls[j - 1].outcome = "failed"
                \/ calls[j - 1].outcome = "invalid" /\ IsRepairCall(j - 1)
    /\ \A i \in 1..Len(calls) :
          calls[i].outcome \in {"valid", "raise"} => i = Len(calls)
    /\ (\E i \in 1..Len(calls) : calls[i].outcome = "valid")
          => /\ pc = "done"
             /\ ~ran_rule
             /\ result # None
    /\ ran_rule => pc = "done"

C3_Witness ==
    /\ pc = "done"
    /\ Len(calls) = 3
    /\ calls[1].provider = "Groq" /\ calls[1].outcome = "invalid"
    /\ calls[2].provider = "Groq" /\ calls[2].outcome = "invalid"
    /\ calls[3].provider = "Featherless" /\ calls[3].outcome = "valid"
    /\ ~ran_rule

\* C4: per provider, a repair call is issued if and only if the first call
\* returned a reply that did not give a valid record; at most two calls per
\* provider; a first call that failed is not repaired; the repair request is the
\* original conversation, the invalid reply as assistant message and one
\* fix-the-JSON user message.
C4_RepairIffInvalidReply ==
    /\ \A i \in 1..Len(calls) :
          (IsFirstCall(i) /\ calls[i].reply # None /\ calls[i].outcome # "valid")
          => \/ /\ i < Len(calls)
                /\ IsRepairCall(i + 1)
                /\ calls[i + 1].provider = calls[i].provider
             \/ /\ i = Len(calls)
                /\ pc = calls[i].provider \o "_repair"
    /\ \A j \in 1..Len(calls) :
          IsRepairCall(j)
          => /\ j > 1
             /\ IsFirstCall(j - 1)
             /\ calls[j - 1].provider = calls[j].provider
             /\ calls[j - 1].reply # None
             /\ calls[j - 1].outcome # "valid"
             /\ calls[j].messages =
                   calls[j - 1].messages
                   \o << [role |-> "assistant", content |-> calls[j - 1].reply[1]],
                         [role |-> "user",
                          content |-> "Fix the output into STRICT valid JSON only."] >>
    /\ \A p \in {"Groq", "Featherless"} :
          Cardinality({i \in 1..Len(calls) : calls[i].provider = p}) <= 2

\* C5: every record returned by extract_intent has confidence_score in [0,1]
\* (0..100 hundredths) and urgency in {low, medium, high}.
C5_ConfidenceAndUrgencyInRange ==
    result # None =>
        /\ result[1].confidence_score >= 0
        /\ result[1].confidence_score <= 100
        /\ result[1].urgency \in {"low", "medium", "high"}

\* a provider record is returned after a reply with confidence 1.5 was sent
C5_Witness ==
    /\ pc = "done"
    /\ result # None
    /\ \E i \in 1..Len(calls) : calls[i].reply = Some(J_conf)
    /\ \E i \in 1..Len(calls) : calls[i].outcome = "valid"

\* C6: every record returned by extract_intent has at most 3 follow-up questions.
C6_AtMostThreeQuestions ==
    result # None => Len(result[1].follow_up_questions) <= 3

\* C8: the chain follows the documented priority: Groq first if
\* LLM_PROVIDER=groq or a Groq key is present; Featherless if
\* LLM_PROVIDER=featherless and after Groq; rule-based last; with any other
\* LLM_PROVIDER no provider call.
C8_DocumentedPriority ==
    Terminated =>
        /\ (lower(llm_provider) = "groq" \/ groq_api_key)
              => (calls # <<>> /\ calls[1].provider = "Groq")
        /\ lower(llm_provider) = "featherless"
              => \E i \in 1..Len(calls) : calls[i].provider = "Featherless"
        /\ \A i, j \in 1..Len(calls) :
              (i < j /\ calls[i].provider = "Featherless")
              => calls[j].provider = "Featherless"
        /\ ran_rule => \A i \in 1..Len(calls) : calls[i].outcome # "valid"
        /\ lower(llm_provider) \notin {"groq", "featherless"} => calls = <<>>

-----------------------------------------------------------------------------
(* Properties of _run_pipeline (specification SpecPipeline) *)

HasId(r) == req[r].pc \in {"has_id", "json_written", "saved", "returned"}

\* C7: invocations get distinct report ids, also within one second, and a
\* returned report_id resolves to the files written by the invocation that
\* returned it.
C7_IndependentInvocations ==
    \A r \in DOMAIN req :
        /\ \A q \in DOMAIN req :
              (r # q /\ HasId(r) /\ HasId(q)) => req[r].report_id # req[q].report_id
        /\ req[r].pc = "returned" =>
              /\ req[r].report_id \in DOMAIN json_files
              /\ json_files[req[r].report_id].by = r
              /\ req[r].report_id \in DOMAIN md_files
              /\ md_files[req[r].report_id].by = r

-----------------------------------------------------------------------------
(* Properties of _rule_extract (specification SpecRule) *)

\* some keyword of the table occurs in the lower-cased text
AnyKeywordIn(text_lower, lookup) ==
    \E i \in 1..Len(lookup) : \E k \in 1..Len(lookup[i].keywords) :
        IsSubstr(lookup[i].keywords[k], text_lower)

AnyKeyword(t, lookup) == AnyKeywordIn(lower(t), lookup)

SymptomLabels == {"report_noise", "report_vibration", "report_overheating",
                  "report_charging_failure", "report_not_working",
                  "report_low_battery"}

\* C9: the intent is report_<symptom with underscores> exactly when device and
\* symptom matched, report_general_issue exactly when only the device matched,
\* unclassified otherwise (also when the symptom matched and the device did not).
C9_RuleIntentLabel ==
    (pc = "done" /\ ran_rule /\ calls = <<>>) =>
        LET r  == result[1]
            dm == AnyKeyword(text, _DEVICES)
            sm == AnyKeyword(text, _SYMPTOMS)
        IN  /\ (dm /\ sm) <=> r.intent \in SymptomLabels
            /\ (dm /\ sm) => r.intent = "report_" \o replace(r.symptom, " ", "_")
            /\ (dm /\ ~sm) <=> r.intent = "report_general_issue"
            /\ ~dm <=> r.intent = "unclassified"

C9_Witness ==
    /\ pc = "done"
    /\ ran_rule
    /\ text = "Motor not charging"
    /\ result[1].intent = "report_charging_failure"

\* C10: the confidence is the mean of the three table scores (85 matched, 30
\* unmatched) rounded to a hundredth, less 15 with floor 10 when the symptom is
\* unmatched; a text with no keyword at all gives unclassified, device unknown
\* and confidence at most 30.
C10_RuleConfidence ==
    (pc = "done" /\ ran_rule /\ calls = <<>>) =>
        LET r  == result[1]
            dm == AnyKeyword(text, _DEVICES)
            sm == AnyKeyword(text, _SYMPTOMS)
            cm == AnyKeyword(text, _COMPONENTS)
            score(m) == IF m THEN 85 ELSE 30
            total == score(dm) + score(sm) + score(cm)
        IN  /\ \E mean \in 0..100 :
                  /\ 2 * Abs(3 * mean - total) <= 3
                  /\ r.confidence_score = IF sm THEN mean ELSE Max(mean - 15, 10)
            /\ (~dm /\ ~sm /\ ~cm) =>
                  /\ r.intent = "unclassified"
                  /\ r.device = "unknown"
                  /\ r.confidence_score <= 30

C10_Witness ==
    /\ pc = "done"
    /\ ran_rule
    /\ ~AnyKeyword(text, _DEVICES)
    /\ ~AnyKeyword(text, _SYMPTOMS)
    /\ ~AnyKeyword(text, _COMPONENTS)
    /\ text # ""
    /\ result[1].confidence_score = 15

\* the entry of the table has a keyword occurring in the lower-cased text
EntryMatches(text_lower, lookup, i) ==
    \E k \in 1..Len(lookup[i].keywords) :
        IsSubstr(lookup[i].keywords[k], text_lower)

\* the canonical label of the first entry, in table order, that matches
FirstLabel(text_lower, lookup) ==
    LET matching == {i \in 1..Len(lookup) : EntryMatches(text_lower, lookup, i)}
    IN  IF matching = {} THEN "unknown" ELSE lookup[SetMin(matching)].canonical

\* what C11 says of the record r returned for the text t, low being lower(t)
FirstEntryWins(r, t, low, component) ==
    /\ r.device = FirstLabel(low, _DEVICES)
    /\ r.symptom = FirstLabel(low, _SYMPTOMS)
    /\ r.suspected_component =
           IF component = "unknown" THEN None ELSE Some(component)
    /\ (EntryMatches(low, _SYMPTOMS, 4) /\ EntryMatches(low, _SYMPTOMS, 5)
         /\ \A i \in 1..3 : ~EntryMatches(low, _SYMPTOMS, i))
            => r.symptom = "charging failure"
    /\ t = TanglishText =>
           /\ r.device = "motor pump"
           /\ r.symptom = "noise"
           /\ r.suspected_component = Some("capacitor")
           /\ r.urgency = "medium"

\* C11: in each keyword table the result is the canonical label of the first
\* entry, in table order, with a keyword occurring in the lower-cased text,
\* wherever the keywords stand in the text (unknown / no component when no entry
\* matches); the Tanglish scenario text gives motor pump, noise, capacitor and
\* urgency medium.
C11_FirstEntryInTableOrderWins ==
    (pc = "done" /\ ran_rule /\ calls = <<>>) =>
        FirstEntryWins(result[1], text, lower(text),
                       FirstLabel(lower(text), _COMPONENTS))

\* a not-working keyword stands before the charging-failure keyword in the text
C11_Witness ==
    /\ pc = "done"
    /\ ran_rule
    /\ text = "stopped not charging"
    /\ result[1].symptom = "charging failure"

-----------------------------------------------------------------------------
(* Properties of _apply_confidence_cap (specification SpecCap) *)

\* the symptom is generic: lower-cased and trimmed it is unknown, issue,
\* problem or empty
IsGeneric(sym) ==
    \E core \in {"unknown", "issue", "problem", ""} :
        \E pre, post \in {"", " ", "  "} :
            lower(sym) = pre \o core \o post

\* C12: the capped confidence is min(x, cap(s)), cap(s) being 0.85 when s
\* lower-cased and trimmed is unknown, issue, problem or empty and 0.95
\* otherwise; so it is at most 0.85 for unknown, at most 0.95 for noise and
\* never above x.
C12_ConfidenceCap ==
    capped # None =>
        /\ capped[1] = Min(cap_confidence, IF IsGeneric(cap_symptom) THEN 85 ELSE 95)
        /\ cap_symptom = "unknown" => capped[1] <= 85
        /\ cap_symptom = "noise" => capped[1] <= 95
        /\ capped[1] <= cap_confidence

\* a cap_confidence above both caps with a specific cap_symptom
C12_Witness ==
    /\ capped = Some(95)
    /\ cap_confidence = 100
    /\ cap_symptom = "noise"

-----------------------------------------------------------------------------
(* Properties of analyse_codeswitch (specification SpecCodeswitch) *)

RECURSIVE SumOver(_, _)
SumOver(f, S) ==
    IF S = {} THEN 0
    ELSE LET k == CHOOSE x \in S : TRUE
         IN  f[k] + SumOver(f, S \ {k})

\* the proportions of the mix added up, in thousandths
MixSum(mix) == SumOver(mix, DOMAIN mix)

\* C13: for an input with at least one token every proportion of language_mix
\* is at least 0 and the proportions, each rounded to 3 decimals, add up to 1.0
\* within 0.01.
C13_LanguageMixSumsToOne ==
    (cs_result # None /\ Len(cs_result[1].tokens) > 0) =>
        /\ \A k \in DOMAIN cs_result[1].language_mix :
              cs_result[1].language_mix[k] >= 0
        /\ Abs(MixSum(cs_result[1].language_mix) - 1000) <= 10

\* three tokens of three tags: each proportion is 0.333 and the sum 0.999
C13_Witness ==
    /\ cs_result # None
    /\ Len(cs_result[1].tokens) = 3
    /\ Cardinality(DOMAIN cs_result[1].language_mix) = 3
    /\ MixSum(cs_result[1].language_mix) = 999

-----------------------------------------------------------------------------
(* Properties of generate_report (specification SpecReport) *)

\* C14: two invocations of generate_report with the same transcript,
\* CodeSwitchResult and IntentRecord at the same clock value under the same
\* configuration return the same markdown, reference id included.
C14_DeterministicDossier ==
    \A i, j \in Invocations :
        ( /\ gen # <<>>
          /\ gen[i].markdown # None
          /\ gen[j].markdown # None
          /\ gen[i].transcript = gen[j].transcript
          /\ gen[i].codeswitch = gen[j].codeswitch
          /\ gen[i].intent = gen[j].intent
          /\ gen[i].now = gen[j].now )
        => gen[i].markdown = gen[j].markdown

-----------------------------------------------------------------------------
(* Properties of the summarization chains (specification SpecSummary) *)

Labels == {JStr("high"), JStr("medium"), JStr("low")}

\* the outcome o of a provider function passes the validation that the entry
\* point fn is said to apply
PassesValidation(fn, o) ==
    /\ o.kind = "return"
    /\ IF fn = "summarise_report"
       THEN Len(o.payload.summary) \in 10..1000
       ELSE /\ o.payload.core_summary.t \in {"str", "list"}
            /\ Len(o.payload.core_summary.v) \in 20..1200
            /\ o.payload.confidence \in Labels

\* the summary carried by the outcome o
SummaryOf(fn, o) ==
    IF fn = "summarise_report" THEN JStr(o.payload.summary) ELSE o.payload.core_summary

C16_SummarizationNeverRaises ==
    /\ sum_raised = None
    /\ sum_pc # "raised"
    /\ sum_result # None =>
          /\ sum_result[1].fallback_used <=> sum_result[1].provider = "fallback_regex"
          /\ sum_result[1].fallback_used <=>
                \A i \in 1..Len(sum_calls) : ~PassesValidation(sum_fn, sum_calls[i].outcome)
          /\ sum_fn = "analyse_executive_report" => sum_result[1].confidence \in Labels

-----------------------------------------------------------------------------
(* Properties of the routes (specification SpecRoutes) *)

\* C17: a clarify_report request whose report_id is neither in the draft
\* store nor on disk is answered with 404, runs no stage of the pipeline and
\* persists nothing.  (No report file is ever removed and no draft is ever
\* added, so an id absent now was absent when the request was served.)
C17_UnknownReportIdGives404 ==
    \A i \in 1..Len(http_log) :
        ( /\ http_log[i].endpoint = "clarify_report"
          /\ http_log[i].body.report_id # None
          /\ http_log[i].body.report_id[1] \notin DOMAIN drafts
          /\ http_log[i].body.report_id[1] \notin DOMAIN json_files )
        => /\ http_log[i].status = 404
           /\ http_log[i].stages = <<>>
           /\ http_log[i].report_id = ""

\* C18: a process_text request whose text is empty or missing is answered
\* with 422 and runs no stage of the pipeline: no code-switch tagging, no
\* intent extraction, no report synthesis, no persistence.
C18_EmptyTextRejected ==
    /\ \A i \in 1..Len(http_log) :
          ( /\ http_log[i].endpoint = "process_text"
            /\ http_log[i].body.text \in {None, Some("")} )
          => /\ http_log[i].status = 422
             /\ http_log[i].stages = <<>>
             /\ http_log[i].report_id = ""
    /\ (http_log # <<>> /\ \A i \in 1..Len(http_log) :
            http_log[i].endpoint = "process_text"
            /\ http_log[i].body.text \in {None, Some("")})
       => json_files = <<>> /\ md_files = <<>>

\* both an empty and a missing text have been answered
C18_Witness ==
    /\ Len(http_log) = 2
    /\ http_log[1].endpoint = "process_text"
    /\ http_log[1].body.text = Some("")
    /\ http_log[1].status = 422
    /\ http_log[2].endpoint = "process_text"
    /\ http_log[2].body.text = None
    /\ http_log[2].status = 422

-----------------------------------------------------------------------------
(* Properties of _parse_intent_json (specification SpecParse) *)

\* C19: _parse_intent_json never raises: for every reply, also one that is
\* valid JSON but not an object (an array, a number, a string, null), it
\* returns an IntentResult or None.
C19_ParseNeverRaises ==
    parse_out # None => parse_out[1].kind \in {"ok", "none"}

\* the wrappings of C20: one leading and trailing fence, on lines of their own
\* or on the line of the object, and/or text without braces around the object
TransparentWrappings ==
    {"fence_lines", "fence_tag_lines", "fence_same_line", "fence_open_same_line",
     "fence_close_same_line", "preamble", "postamble", "preamble_postamble",
     "preamble_fence", "fence_postamble"}

\* C20: a schema-valid JSON object wrapped in a markdown code fence (on
\* separate lines or on the line of the object) and/or in brace-free preamble
\* or postamble text parses to the IntentResult of the bare object.
C20_PreprocessingTransparent ==
    ( /\ parse_out # None
      /\ parse_wrap \in TransparentWrappings
      /\ _parse_intent_json(parse_payload, parse_text).kind = "ok" )
    => parse_out[1] = _parse_intent_json(parse_payload, parse_text)

-----------------------------------------------------------------------------
(* Properties of the returned IntentResult, continued (specification Spec) *)

\* the JSON value of the reply that the record returned by a provider was parsed from
AcceptedReply == json_loads(Preprocess(calls[Len(calls)].reply[1]))

\* a provider's record is returned: the last call was valid and no rule ran
FromProvider ==
    /\ pc = "done"
    /\ ~ran_rule
    /\ calls # <<>>
    /\ calls[Len(calls)].outcome = "valid"

\* C21: no returned IntentResult omits urgency: a provider reply that is a
\* schema-valid object without an urgency member is accepted with urgency low,
\* and the rule-based extractor gives low for every symptom outside its urgency
\* table (unknown among them).
C21_UrgencyDefaultsToLow ==
    /\ result # None => result[1].urgency \in {"low", "medium", "high"}
    /\ (FromProvider /\ "urgency" \notin DOMAIN AcceptedReply.members)
          => result[1].urgency = "low"
    /\ (pc = "done" /\ ran_rule /\ result[1].symptom \notin
            {"overheating", "not working", "charging failure",
             "noise", "vibration", "low battery"})
          => result[1].urgency = "low"
    /\ (pc = "done" /\ ran_rule /\ ~AnyKeyword(text, _SYMPTOMS))
          => result[1].symptom = "unknown" /\ result[1].urgency = "low"

\* a reply without urgency was accepted from a provider
C21_Witness ==
    /\ FromProvider
    /\ calls[Len(calls)].reply = Some(J_min)
    /\ result[1].urgency = "low"
    /\ result[1].device = "fan"

-----------------------------------------------------------------------------
(* Properties of _classify_token (specification SpecCodeswitch) *)

\* the positions of the word characters of a token
WordCharsAt(tok) == {i \in 1..Len(tok) : IsWordChar(SubSeq(tok, i, i))}

\* the scripts of the word characters of a token
ScriptsOf(tok) == {_char_lang(SubSeq(tok, i, i)) : i \in WordCharsAt(tok)}

\* the number of word characters of tok in script sc
ScriptCount(tok, sc) ==
    Cardinality({i \in WordCharsAt(tok) : _char_lang(SubSeq(tok, i, i)) = sc})

\* the greatest number of word characters of tok in one script
DominantCount(tok) ==
    SetMax({ScriptCount(tok, sc) : sc \in {"ta", "ml", "en", "unk"}})

HasHyphen(tok) == \E i \in 1..Len(tok) : SubSeq(tok, i, i) = "-"

\* the hyphen rule applies to tok
HyphenRule(tok) == HasHyphen(tok) /\ Cardinality(ScriptsOf(tok)) > 1

IsRounded2(conf, n, d) == 2 * Abs(conf * d - 100 * n) <= d

\* C23 for one TokenAnalysis a with at least one word character and outside
\* the hyphen rule
RatioRules(a, total, dc) ==
    IF Cardinality(ScriptsOf(a.token)) = 1
    THEN /\ a.lang \in ScriptsOf(a.token)
         /\ a.confidence = Min(95, 80 + (15 * dc) \div total)
    ELSE IF 10 * dc >= 8 * total
    THEN /\ ScriptCount(a.token, a.lang) = dc
         /\ IsRounded2(a.confidence, dc, total)
    ELSE /\ a.lang = "mixed"
         /\ IsRounded2(a.confidence, dc, total)

\* C23: outside the hyphen rule, a token with word characters of one script
\* is tagged with that script, confidence min(0.95, 0.8 + 0.15 * ratio); one
\* with dominant ratio >= 0.8 with the dominant script, confidence the ratio
\* rounded to 2 decimals; any other mixed, confidence the rounded ratio.  The
\* confidence is always in [0,1] and the tag one of ta, ml, en, mixed, unk.
C23_SingleScriptAndRatioRules ==
    cs_result # None =>
        \A i \in 1..Len(cs_result[1].tokens) :
            /\ cs_result[1].tokens[i].confidence \in 0..100
            /\ cs_result[1].tokens[i].lang \in {"ta", "ml", "en", "mixed", "unk"}
            /\ (WordCharsAt(cs_result[1].tokens[i].token) # {}
                /\ ~HyphenRule(cs_result[1].tokens[i].token))
               => RatioRules(cs_result[1].tokens[i],
                             Cardinality(WordCharsAt(cs_result[1].tokens[i].token)),
                             DominantCount(cs_result[1].tokens[i].token))

\* a token of one script, one with ratio 4/5 and one with ratio 1/2 have been tagged
C23_Witness ==
    /\ cs_result # None
    /\ cs_text = "சத்தம் abcd1 a1"
    /\ cs_result[1].tokens[1].lang = "ta"
    /\ cs_result[1].tokens[1].confidence = 95
    /\ cs_result[1].tokens[2].lang = "en"
    /\ cs_result[1].tokens[2].confidence = 80
    /\ cs_result[1].tokens[3].lang = "mixed"
    /\ cs_result[1].tokens[3].confidence = 50

-----------------------------------------------------------------------------
(* Properties of analyse_codeswitch (specification SpecCodeswitch) *)

IsWhite(t, i) == SubSeq(t, i, i) \in {" ", "\n", "\t", "\r"}

\* the positions where a whitespace-delimited unit of t starts
UnitStarts(t) ==
    {i \in 1..Len(t) : ~IsWhite(t, i) /\ (i = 1 \/ IsWhite(t, i - 1))}

\* the position where the unit that starts at i ends
UnitEnd(t, i) ==
    SetMin({j \in i..Len(t) : j = Len(t) \/ IsWhite(t, j + 1)})

\* the start of the k-th unit of t
UnitStart(t, k) ==
    CHOOSE i \in UnitStarts(t) : Cardinality({j \in UnitStarts(t) : j <= i}) = k

\* C24: analyse_codeswitch gives one token per whitespace-delimited unit of
\* the input, in input order, with the unit's text unchanged; a unit without
\* word characters is tagged unk with confidence 0.5; an empty or
\* whitespace-only input gives no tokens and an empty language_mix.
C24_OneTokenPerUnit ==
    cs_result # None =>
        /\ Len(cs_result[1].tokens) = Cardinality(UnitStarts(cs_text))
        /\ \A k \in 1..Len(cs_result[1].tokens) :
              /\ cs_result[1].tokens[k].token =
                     SubSeq(cs_text, UnitStart(cs_text, k),
                            UnitEnd(cs_text, UnitStart(cs_text, k)))
              /\ WordCharsAt(cs_result[1].tokens[k].token) = {} =>
                     /\ cs_result[1].tokens[k].lang = "unk"
                     /\ cs_result[1].tokens[k].confidence = 50
        /\ (\A i \in 1..Len(cs_text) : IsWhite(cs_text, i)) =>
              /\ cs_result[1].tokens = <<>>
              /\ DOMAIN cs_result[1].language_mix = {}

\* two units between runs of blanks have been tagged
C24_Witness ==
    /\ cs_text = "  motor   சத்தம் "
    /\ cs_result # None
    /\ Len(cs_result[1].tokens) = 2
    /\ cs_result[1].tokens[1].token = "motor"
    /\ cs_result[1].tokens[2].token = "சத்தம்"

-----------------------------------------------------------------------------
(* Properties of the dossier (specification SpecDossier) *)

\* a field value that is empty or "unknown" once lower-cased and stripped
Unresolved(value) == strip(lower(value)) \in {"", "unknown"}

\* the five completeness checks of a response, as truth values
DeviceOk(resp) == ~Unresolved(resp.intent.device)
SymptomOk(resp) == ~IsGeneric(resp.intent.symptom)
ComponentOk(resp) == ~Unresolved(OrEmpty(resp.intent.suspected_component))
TranscriptOk(resp) ==
    \E i \in 1..Len(resp.transcript) : ~IsWhite(resp.transcript, i)
UrgencyOk(resp) == resp.intent.urgency \in {"low", "medium", "high"}

Count(b) == IF b THEN 1 ELSE 0

ChecksPassed(resp) ==
    Count(TranscriptOk(resp)) + Count(DeviceOk(resp)) + Count(SymptomOk(resp))
    + Count(ComponentOk(resp)) + Count(UrgencyOk(resp))

\* line is one of the lines of the list
HasLine(list, line) == \E i \in 1..Len(list) : list[i] = line

GenericFaultLine ==
    "Symptom could not be specifically classified; generic fault branch applied."

\* C25: the completeness score of the dossier is (checks passed)/5 over the
\* checks transcript non-empty, device resolved, symptom not generic,
\* component resolved, urgency valid; with a generic symptom the score is at
\* most 0.8 and the assumption flags hold the "generic fault branch" line.
C25_CompletenessScore ==
    dos_response # None =>
        /\ dos_response[1].report_text.completeness_passed = ChecksPassed(dos_response[1])
        /\ Len(dos_response[1].report_text.completeness_rows) = 5
        /\ dos_response[1].report_text.completeness_pct
              = ToString(20 * ChecksPassed(dos_response[1])) \o "%"
        /\ IsGeneric(dos_response[1].intent.symptom) =>
              /\ ChecksPassed(dos_response[1]) <= 4
              /\ HasLine(dos_response[1].report_text.assumption_list, GenericFaultLine)

\* a dossier for symptom "unknown" with everything else resolved: 4 of 5
C25_Witness ==
    /\ dos_response # None
    /\ dos_response[1].intent.symptom = "unknown"
    /\ dos_response[1].intent.device = "motor pump"
    /\ dos_response[1].intent.suspected_component = Some("bearing")
    /\ dos_response[1].report_text.completeness_pct = "80%"
    /\ HasLine(dos_response[1].report_text.assumption_list, GenericFaultLine)


DeviceLine ==
    "Device defaulted to 'unknown' - field report did not name a specific unit."
ComponentLine ==
    "Suspected component not derived; hypothesis uses worst-case fault tree."
SingleLanguageLine ==
    "Input was single-language; code-switch analysis returned no mixed tokens."
NoAssumptionsLine ==
    "No significant assumptions detected - high-confidence extraction."

\* the language mix of the response's transcript has more than one language
Multilingual(resp) ==
    Cardinality(DOMAIN analyse_codeswitch(resp.transcript).language_mix) > 1

\* C26 for the list of flags of a response
FlagsAsClaimed(resp, list) ==
    /\ list # <<>>
    /\ \A i, j \in 1..Len(list) : list[i] = list[j] => i = j
    /\ \A i \in 1..Len(list) :
          list[i] \in {DeviceLine, GenericFaultLine, ComponentLine,
                       SingleLanguageLine, NoAssumptionsLine}
    /\ HasLine(list, DeviceLine) <=> ~DeviceOk(resp)
    /\ HasLine(list, GenericFaultLine) <=> ~SymptomOk(resp)
    /\ HasLine(list, ComponentLine) <=> ~ComponentOk(resp)
    /\ HasLine(list, SingleLanguageLine) <=> ~Multilingual(resp)
    /\ HasLine(list, NoAssumptionsLine) <=>
          (DeviceOk(resp) /\ SymptomOk(resp) /\ ComponentOk(resp) /\ Multilingual(resp))
    /\ HasLine(list, NoAssumptionsLine) => Len(list) = 1

\* C26: the assumption flags are never empty and hold exactly one line per
\* unresolved dimension (device, symptom, component, single-language input);
\* the "no significant assumptions" line is there exactly when device, symptom
\* and component are resolved and the language mix has more than one language,
\* and then it is the only line; a device, symptom or component flag is there
\* exactly when the completeness check of that field fails.
C26_AssumptionFlags ==
    dos_response # None =>
        /\ FlagsAsClaimed(dos_response[1], dos_response[1].report_text.assumption_list)
        /\ \A i \in 1..5 :
              LET row == dos_response[1].report_text.completeness_rows[i]
              IN  /\ row.label = "Device identified" =>
                        (row.ok <=> ~HasLine(dos_response[1].report_text.assumption_list, DeviceLine))
                  /\ row.label = "Symptom identified" =>
                        (row.ok <=> ~HasLine(dos_response[1].report_text.assumption_list, GenericFaultLine))
                  /\ row.label = "Component identified" =>
                        (row.ok <=> ~HasLine(dos_response[1].report_text.assumption_list, ComponentLine))

\* a dossier with the single "no significant assumptions" line
C26_Witness ==
    /\ dos_response # None
    /\ dos_response[1].transcript = "motor சத்தம் xyz"
    /\ dos_response[1].intent.device = "motor pump"
    /\ dos_response[1].intent.symptom = "noise"
    /\ dos_response[1].intent.suspected_component = Some("bearing")
    /\ dos_response[1].report_text.assumption_list = <<NoAssumptionsLine>>

-----------------------------------------------------------------------------
(* Properties of the provider chain, continued (specification Spec) *)

\* the JSON value is an object whose confidence_score is outside [0,1] or
\* whose urgency is none of low, medium, high
OutOfRangeValue(loaded) ==
    /\ loaded.kind = "object"
    /\ \/ /\ "confidence_score" \in DOMAIN loaded.members
          /\ loaded.members.confidence_score.t = "num"
          /\ loaded.members.confidence_score.v \notin 0..100
       \/ /\ "urgency" \in DOMAIN loaded.members
          /\ loaded.members.urgency.v \notin {"low", "medium", "high"}

\* the reply of call i is such an object
OutOfRange(i) ==
    /\ calls[i].reply # None
    /\ OutOfRangeValue(json_loads(Preprocess(calls[i].reply[1])))

\* after call i, the last of its provider, extract_intent goes on with the
\* next extractor
FallsThrough(i) ==
    IF i < Len(calls)
    THEN /\ calls[i].provider = "Groq"
         /\ calls[i + 1].provider = "Featherless"
         /\ IsFirstCall(i + 1)
    ELSE \/ calls[i].provider = "Groq" /\ pc = "Featherless_first"
         \/ /\ calls[i].provider = "Featherless"
            /\ pc = "done"
            /\ ran_rule
            /\ result = Some(_rule_extract(text))

-----------------------------------------------------------------------------
(* Frame and numerical properties of the dossier (specification SpecDossier) *)

\* the ceiling that applies to a symptom, in hundredths
CeilingOf(sym) == IF IsGeneric(sym) THEN 85 ELSE 95

\* C28: generate_report leaves its IntentResult argument unchanged: the cap
\* shows only in the dossier, whose confidence figure is min(raw, cap), at most
\* 95% and at most 85% for a generic symptom, while the IntentResult in the
\* response carries the extractor's raw confidence_score.
C28_CapOnlyInDossier ==
    [][ dos_response' # dos_response =>
          /\ dos_intent' = dos_intent
          /\ dos_response'[1].intent = dos_intent[1]
          /\ dos_response'[1].report_text.capped_confidence =
                ToString(Min(dos_intent[1].confidence_score,
                             CeilingOf(dos_intent[1].symptom))) \o "%"
          /\ Min(dos_intent[1].confidence_score, CeilingOf(dos_intent[1].symptom)) <= 95
          /\ IsGeneric(dos_intent[1].symptom) =>
                Min(dos_intent[1].confidence_score, CeilingOf(dos_intent[1].symptom)) <= 85
    ]_vars

\* a response whose IntentResult has confidence 1.0 next to a dossier that shows 85%
C28_Witness ==
    /\ dos_response # None
    /\ dos_intent # None
    /\ dos_intent[1].confidence_score = 100
    /\ dos_response[1].intent.confidence_score = 100
    /\ dos_response[1].intent.symptom = "unknown"
    /\ dos_response[1].report_text.capped_confidence = "85%"
    /\ dos_response[1].report_text.capped_from # ""

-----------------------------------------------------------------------------
(* Numerical properties of the rule-based extractor (specification SpecRule) *)

\* the values of C29, as doubles: hundredths, with no distance from the double
\* nearest to the hundredth
IsOneOf(r, hundredths) == r.confidence_score \in hundredths /\ r.confidence_ulps = 0

\* the dossier's confidence justification for a rule-based record r
RuleConfFactors(r) ==
    conf_factors(r, strip(lower(r.device)), strip(lower(r.symptom)),
                 strip(lower(OrEmpty(r.suspected_component))), FALSE,
                 r.confidence_score,
                 _apply_confidence_cap(r.confidence_score, r.symptom))

\* C29 for the record r of a text with device, symptom, component matched as dm, sm, cm
RuleScoreAsClaimed(r, dm, sm, cm) ==
    /\ IsOneOf(r, {85, 67, 52, 48, 33, 15})
    /\ IsOneOf(r, {85}) <=> (dm /\ sm /\ cm)
    /\ ~sm => r.confidence_score <= 52
    /\ ~sm => r.confidence_score > 10
    /\ _apply_confidence_cap(r.confidence_score, r.symptom) = r.confidence_score
    /\ \A i \in 1..Len(RuleConfFactors(r)) :
          ~startswith(RuleConfFactors(r)[i], "Raw score")

\* C29: every rule-based confidence_score is one of 0.85, 0.67, 0.52, 0.48,
\* 0.33, 0.15; it is 0.85 exactly when device, symptom and component all
\* matched and at most 0.52 when the symptom is unmatched; the floor 0.1 never
\* binds; the cap of generate_report never lowers it and the "capped" line of
\* the justification never appears.
C29_RuleConfidenceValues ==
    (pc = "done" /\ ran_rule /\ calls = <<>>) =>
        RuleScoreAsClaimed(result[1], AnyKeyword(text, _DEVICES),
                           AnyKeyword(text, _SYMPTOMS), AnyKeyword(text, _COMPONENTS))

-----------------------------------------------------------------------------
(* The script "unk" of word characters (specification SpecCodeswitch) *)

\* a word character that is no Tamil, Malayalam or ASCII letter
IsOtherWordChar(ch) ==
    ch \in Digits \cup OtherLetters \cup {"_"}

\* every word character of tok is such a character, and there is one
OnlyOtherWordChars(tok) ==
    /\ WordCharsAt(tok) # {}
    /\ \A i \in WordCharsAt(tok) : IsOtherWordChar(SubSeq(tok, i, i))

\* tok has word characters of both kinds: such characters and letters of
\* Tamil, Malayalam or ASCII
OtherAndLetters(tok) ==
    /\ \E i \in WordCharsAt(tok) : IsOtherWordChar(SubSeq(tok, i, i))
    /\ \E i \in WordCharsAt(tok) : ~IsOtherWordChar(SubSeq(tok, i, i))

\* C30 for one TokenAnalysis a
UnkScript(a) ==
    /\ \A i \in WordCharsAt(a.token) :
          IsOtherWordChar(SubSeq(a.token, i, i))
             <=> _char_lang(SubSeq(a.token, i, i)) = "unk"
    /\ OnlyOtherWordChars(a.token) => a.lang = "unk" /\ a.confidence = 95
    /\ WordCharsAt(a.token) = {} => a.lang = "unk" /\ a.confidence = 50
    /\ (OtherAndLetters(a.token) /\ HasHyphen(a.token)) =>
          a.lang = "mixed" /\ a.confidence = 70
    /\ (OtherAndLetters(a.token) /\ ~HasHyphen(a.token)) =>
          /\ a.reason # "all chars in " \o a.lang \o " block"
          /\ a.confidence < 95
          /\ 10 * DominantCount(a.token) < 8 * Cardinality(WordCharsAt(a.token))
                => a.lang = "mixed"
          /\ 10 * ScriptCount(a.token, "unk") >= 8 * Cardinality(WordCharsAt(a.token))
                => a.lang = "unk"

\* C30: word characters outside Tamil, Malayalam and ASCII letters (digits,
\* underscore, letters of other scripts) form a fourth script unk: a token of
\* such characters only is tagged unk with confidence 0.95 (0.5 is for tokens
\* without word characters), and they count as a script of their own in the
\* hyphen rule and in the dominant-ratio and mixed rules.
C30_UnkIsAScript ==
    cs_result # None =>
        \A i \in 1..Len(cs_result[1].tokens) : UnkScript(cs_result[1].tokens[i])

\* tokens of digits, of another script's letter with underscore and digit,
\* and of ASCII letters with a digit after a hyphen have been tagged
C30_Witness ==
    /\ cs_result # None
    /\ cs_text = "123 ß_1 abcd-1"
    /\ cs_result[1].tokens[1].lang = "unk"
    /\ cs_result[1].tokens[1].confidence = 95
    /\ cs_result[1].tokens[2].lang = "unk"
    /\ cs_result[1].tokens[2].confidence = 95
    /\ cs_result[1].tokens[3].lang = "mixed"
    /\ cs_result[1].tokens[3].confidence = 70

=============================================================================
